---- MODULE Spec2Model ----
(***************************************************************************)
(* Model of the "advanced" API examples of the pokedex project:            *)
(*   - SimpleCache: a Map of key -> {data, timestamp} with a TTL and lazy  *)
(*     expiry on get;                                                      *)
(*   - AdvancedApiClient.request: cache consult, timed fetch attempts,     *)
(*     retry loop with exponential backoff, cache write on success;        *)
(*   - useApi and useDebouncedSearch: the state of a component that uses   *)
(*     the hook, its apiCall promises and its debounce timer;              *)
(*   - BackgroundSync: the offline queue and its processing.               *)
(* Strings the code inspects (error messages) are sequences of one-        *)
(* character strings, so that String.includes is a real substring test.    *)
(***************************************************************************)
EXTENDS Integers, Sequences, FiniteSets, TLC

VARIABLES
    cache,      \* SimpleCache.cache: the Map, a function from the keys present to entries
    ttl,        \* SimpleCache.ttl
    now,        \* Date.now()
    last,       \* the last SimpleCache operation called directly and what it returned
    written,    \* per key: the data and time of the last set since the last clear,
                \* and the time of the first set since then
    cleared,    \* per key: what clear() found ("no" once the key was set again)
    call,       \* the running (or last finished) call of AdvancedApiClient.request
    made,       \* the number of request calls made
    calls,      \* request calls that run at the same time on one client
    keyed,      \* two option objects and the cache keys request computes for them
    api,        \* a component that uses useApi: its state and its apiCall promises
    search,     \* a component that uses useDebouncedSearch
    sync,       \* a BackgroundSync object and the requests made through it
    limiter,    \* a RateLimiter and what its methods returned
    secure,     \* a SecureApiClient and the calls of secureRequest
    monitor,    \* an ApiPerformanceMonitor and the calls of monitoredFetch
    sanitized,  \* an input string and what sanitizeInput returns for it
    app         \* the App component

cacheVars == <<cache, ttl, now>>
ghostVars == <<last, written, cleared>>
clientVars == <<call, made>>
moreVars == <<limiter, secure, monitor, sanitized, app>>
appVars == <<calls, keyed, api, search, sync, moreVars>>
vars == <<cache, ttl, now, last, written, cleared, call, made, calls, keyed, api,
          search, sync, limiter, secure, monitor, sanitized, app>>

----------------------------------------------------------------------------
(* Bounds of the SimpleCache specification *)

MaxTtl == 1
MaxTime == 4

(* JavaScript values stored in the cache, as their JSON text *)
NullV == "null"
CacheKeys == {"k1", "k2"}
CacheValues == {NullV, "v1", "v2"}

NoEntry == [data |-> "none", timestamp |-> -1]

----------------------------------------------------------------------------
(* Map<string, {data, timestamp}> *)

EmptyMap == [k \in {} |-> NoEntry]

MapHas(m, k) == k \in DOMAIN m

MapPut(m, k, e) == [x \in (DOMAIN m) \cup {k} |-> IF x = k THEN e ELSE m[x]]

MapDelete(m, k) == [x \in (DOMAIN m) \ {k} |-> m[x]]

----------------------------------------------------------------------------
(* SimpleCache *)

\* (mutation of IsExpired: the comparison written >= instead of >)
IsExpired_AtTtl(entry, t, ttlMs) == t - entry.timestamp >= ttlMs

\* the expiry test of get: Date.now() - entry.timestamp > this.ttl
IsExpired(entry, t, ttlMs) == t - entry.timestamp > ttlMs

\* what get(key) returns at time t: null when there is no entry or it has expired
get_return(m, k, t, ttlMs) ==
    IF ~MapHas(m, k) THEN NullV
    ELSE IF IsExpired(m[k], t, ttlMs) THEN NullV
    ELSE m[k].data

\* (mutation of get_cache: the expired entry is not deleted)
get_cache_NoEvict(m, k, t, ttlMs) == m

\* (mutation of get_cache: reading a fresh entry renews its timestamp)
get_cache_Touch(m, k, t, ttlMs) ==
    IF ~MapHas(m, k) THEN m
    ELSE IF IsExpired(m[k], t, ttlMs) THEN MapDelete(m, k)
    ELSE MapPut(m, k, [m[k] EXCEPT !.timestamp = t])

\* the Map after get(key) at time t: an expired entry is deleted
get_cache(m, k, t, ttlMs) ==
    IF ~MapHas(m, k) THEN m
    ELSE IF IsExpired(m[k], t, ttlMs) THEN MapDelete(m, k)
    ELSE m

\* (mutation of set_cache: an existing entry keeps its timestamp)
set_cache_KeepStamp(m, k, v, t) ==
    MapPut(m, k, [data |-> v, timestamp |-> IF MapHas(m, k) THEN m[k].timestamp ELSE t])

\* the Map after set(key, data) at time t
set_cache(m, k, v, t) == MapPut(m, k, [data |-> v, timestamp |-> t])

\* (mutation of clear_cache: only one entry is removed)
clear_cache_One(m) ==
    IF DOMAIN m = {} THEN m ELSE MapDelete(m, CHOOSE k \in DOMAIN m : TRUE)

\* the Map after clear()
clear_cache(m) == EmptyMap

\* size()
size(m) == Cardinality(DOMAIN m)

----------------------------------------------------------------------------
(* The SimpleCache driven directly: set, get, clear and the clock *)

EntryOf(m, k) == IF MapHas(m, k) THEN m[k] ELSE NoEntry

NoWrite == [data |-> "none", timestamp |-> -1, first |-> -1]

NoOp == [op |-> "none", key |-> "none", val |-> "none", ret |-> "none",
         at |-> 0, had |-> NoEntry]

\* how clear() found key k at time t
FoundAt(m, k, t, ttlMs) ==
    IF ~MapHas(m, k) THEN "absent"
    ELSE IF IsExpired(m[k], t, ttlMs) THEN "expired" ELSE "fresh"

InitCache ==
    /\ cache = EmptyMap
    /\ ttl \in 0..MaxTtl
    /\ now = 0
    /\ last = NoOp
    /\ written = [k \in CacheKeys |-> NoWrite]
    /\ cleared = [k \in CacheKeys |-> "no"]
    /\ call = <<>>
    /\ made = 0
    /\ calls = <<>>
    /\ keyed = <<>>
    /\ api = <<>>
    /\ search = <<>>
    /\ sync = <<>>
    /\ limiter = <<>>
    /\ secure = <<>>
    /\ monitor = <<>>
    /\ sanitized = <<>>
    /\ app = <<>>

Get(k) ==
    /\ cache' = get_cache(cache, k, now, ttl)
    /\ last' = [op |-> "get", key |-> k, val |-> "none",
                ret |-> get_return(cache, k, now, ttl), at |-> now,
                had |-> EntryOf(cache, k)]
    /\ UNCHANGED <<ttl, now, written, cleared, clientVars, appVars>>

Set(k, v) ==
    /\ cache' = set_cache(cache, k, v, now)
    /\ last' = [op |-> "set", key |-> k, val |-> v, ret |-> "none", at |-> now,
                had |-> EntryOf(cache, k)]
    /\ written' = [written EXCEPT ![k] =
            [data |-> v, timestamp |-> now,
             first |-> IF written[k] = NoWrite THEN now ELSE written[k].first]]
    /\ cleared' = [cleared EXCEPT ![k] = "no"]
    /\ UNCHANGED <<ttl, now, clientVars, appVars>>

Clear ==
    /\ cache' = clear_cache(cache)
    /\ last' = [NoOp EXCEPT !.op = "clear", !.at = now]
    /\ written' = [k \in CacheKeys |-> NoWrite]
    /\ cleared' = [k \in CacheKeys |-> FoundAt(cache, k, now, ttl)]
    /\ UNCHANGED <<ttl, now, clientVars, appVars>>

\* the clock advances
ClockTick ==
    /\ now < MaxTime
    /\ now' = now + 1
    /\ UNCHANGED <<cache, ttl, last, written, cleared, clientVars, appVars>>

NextCache ==
    \/ \E k \in CacheKeys : Get(k)
    \/ \E k \in CacheKeys, v \in CacheValues : Set(k, v)
    \/ Clear
    \/ ClockTick

SpecCache == InitCache /\ [][NextCache]_vars

----------------------------------------------------------------------------
(* Properties of SimpleCache, checked under SpecCache *)

LastAge == last.at - last.had.timestamp

\* C1: get never returns the data of an entry stamped more than ttl before the
\* time of the call (it returns null), and an entry whose age is exactly ttl is
\* still returned.
C1_GetNeverReturnsStale ==
    (last.op = "get" /\ last.had # NoEntry) =>
        /\ (LastAge > ttl => last.ret = NullV)
        /\ (LastAge = ttl => last.ret = last.had.data)

\* a get of an entry whose age is exactly ttl (ttl > 0) returned its data
C1_Witness ==
    /\ last.op = "get" /\ last.had # NoEntry
    /\ ttl > 0 /\ LastAge = ttl
    /\ last.ret = last.had.data /\ last.ret # NullV

\* C2: after set(k, v) with no later set(k, _) or clear(), a get(k) made at most
\* ttl after the set returns v; a get(k) made later returns null and leaves no
\* entry for k, so that a further get returns null as well.
C2_SetThenGet ==
    (last.op = "get" /\ written[last.key] # NoWrite) =>
        IF last.at - written[last.key].timestamp <= ttl
        THEN last.ret = written[last.key].data
        ELSE last.ret = NullV /\ ~MapHas(cache, last.key)

\* a second get after the eviction: the set value is past ttl, the entry is
\* already gone, and get returned null
C2_Witness ==
    /\ last.op = "get" /\ written[last.key] # NoWrite
    /\ written[last.key].data # NullV
    /\ last.at - written[last.key].timestamp > ttl
    /\ last.had = NoEntry /\ last.ret = NullV

\* C3: after clear(), get(k) returns null for every key k until k is set again,
\* whatever clear() found under k, and size() is 0 while no key has been set.
C3_ClearEmpties ==
    /\ (last.op = "get" /\ cleared[last.key] # "no") => last.ret = NullV
    /\ last.op = "clear" => size(cache) = 0
    /\ (\A k \in CacheKeys : cleared[k] # "no") => size(cache) = 0

\* a get after a clear() that found one fresh and one expired entry
C3_Witness ==
    /\ last.op = "get" /\ cleared[last.key] = "fresh" /\ last.ret = NullV
    /\ \E k \in CacheKeys : cleared[k] = "expired"

\* C4: set(k, v2) on a key that holds an entry replaces it: the entry becomes
\* {v2, time of this set}, and a later get within ttl of the latest set returns
\* v2 even though the first set is more than ttl old.
C4_SetReplaces ==
    /\ (last.op = "set" /\ last.had # NoEntry) =>
            /\ MapHas(cache, last.key)
            /\ cache[last.key] = [data |-> last.val, timestamp |-> last.at]
    /\ (last.op = "get" /\ last.had # NoEntry
            /\ last.at - written[last.key].timestamp <= ttl) =>
            last.ret = written[last.key].data

\* a get returned the value of the latest set although the first set of the
\* key is more than ttl old
C4_Witness ==
    /\ last.op = "get" /\ last.had # NoEntry
    /\ written[last.key].first + ttl < last.at
    /\ written[last.key].timestamp > written[last.key].first
    /\ last.ret = written[last.key].data /\ last.ret # NullV

----------------------------------------------------------------------------
(* Strings as sequences of one-character strings *)

DigitChars == <<"0", "1", "2", "3", "4", "5", "6", "7", "8", "9">>

\* the decimal text of a number n >= 0, as `${n}` gives it
RECURSIVE ToStr(_)
ToStr(n) ==
    IF n < 10 THEN <<DigitChars[n + 1]>>
    ELSE ToStr(n \div 10) \o <<DigitChars[(n % 10) + 1]>>

\* String.prototype.includes
Includes(str, sub) ==
    \E i \in 1..(Len(str) - Len(sub) + 1) : SubSeq(str, i, i + Len(sub) - 1) = sub

Min(a, b) == IF a <= b THEN a ELSE b

RECURSIVE Pow2(_)
Pow2(k) == IF k = 0 THEN 1 ELSE 2 * Pow2(k - 1)

----------------------------------------------------------------------------
(* AdvancedApiClient *)

ClientCacheTtl == 300000
DefaultTimeout == 10000
BackoffBase == 1000
BackoffCap == 10000

(* Bounds of the client specification *)
MaxCalls == 2
MaxRetries == 1
MaxClock == 300000

(* Inputs of request *)
Endpoint == "/pokemon/ditto"

\* fetchOptions: the properties left after useCache and retries are taken out, in
\* the order the caller wrote them
FetchOptionChoices ==
    { <<>>,
      << <<"method", "GET">> >>,
      << <<"method", "POST">> >> }

(* What the network can answer *)

\* response.status and response.statusText: the reason phrase is empty, or quotes
\* an upstream code
Responses ==
    { <<200, <<>>>>, <<201, <<>>>>, <<400, <<>>>>, <<404, <<>>>>, <<500, <<>>>>,
      <<500, <<"u", "p", " ", "4", "0", "4">>>> }

\* decoded bodies (response.json()), as JSON text
Bodies == {"0", "{a}"}

\* messages of the TypeError a failed fetch rejects with; the text is the
\* runtime's and may quote the address
NetworkMessages ==
    { <<"f", "e", "t", "c", "h", " ", "f", "a", "i", "l", "e", "d">>,
      <<"c", "o", "n", "n", "e", "c", "t", " ", ":", "4", "0", "0", "0">> }

\* message of the AbortError an aborted fetch rejects with
AbortMessage == <<"a", "b", "o", "r", "t", "e", "d">>

\* messages of the SyntaxError response.json() rejects with; newer runtimes quote
\* the start of the body
DecodeMessages ==
    { <<"n", "o", "t", " ", "J", "S", "O", "N">>,
      <<"n", "o", "t", " ", "J", "S", "O", "N", " ", "<", "4", "0", "4", ">">> }

\* errors carry, beside their message, what failed and in which attempt
NoError == [kind |-> "none", status |-> 0, message |-> <<>>, attempt |-> -1]

\* new Error(`HTTP ${response.status}: ${response.statusText}`)
HttpError(status, statusText, attempt) ==
    [kind |-> "http", status |-> status,
     message |-> <<"H", "T", "T", "P", " ">> \o ToStr(status) \o <<":", " ">> \o statusText,
     attempt |-> attempt]

NetworkError(msg, attempt) ==
    [kind |-> "network", status |-> 0, message |-> msg, attempt |-> attempt]

TimeoutError(attempt) ==
    [kind |-> "timeout", status |-> 0, message |-> AbortMessage, attempt |-> attempt]

DecodeError(msg, attempt) ==
    [kind |-> "decode", status |-> 0, message |-> msg, attempt |-> attempt]

\* response.ok
ResponseOk(status) == status >= 200 /\ status <= 299

\* JavaScript truthiness of a decoded JSON value
FalsyValues == {NullV, "0", "false", "\"\""}
Truthy(v) == v \notin FalsyValues

\* JSON.stringify(fetchOptions): properties whose value is undefined are left out
Stringify(opts) == SelectSeq(opts, LAMBDA p : p[2] # "undefined")

\* fetchOptions.method
MethodOf(opts) ==
    IF \E i \in 1..Len(opts) : opts[i][1] = "method"
    THEN opts[CHOOSE i \in 1..Len(opts) : opts[i][1] = "method"][2]
    ELSE "undefined"

\* const cacheKey = `${url}:${JSON.stringify(fetchOptions)}`
cacheKey(endpoint, opts) == <<endpoint, Stringify(opts)>>

\* the condition under which request reads the cache
ConsultsCache(useCache, opts) == useCache /\ MethodOf(opts) # "POST"

\* (mutation of StoresResponse: every ok response is stored)
StoresResponse_AnyOk(useCache, status) == useCache /\ ResponseOk(status)

\* the condition under which request stores a decoded body
StoresResponse(useCache, status) == useCache /\ status = 200

\* the test that ends the retry loop
IsTerminalMessage(message) ==
    \/ Includes(message, <<"4", "0", "4">>)
    \/ Includes(message, <<"4", "0", "0">>)

\* (mutation of delay: no cap)
delay_NoCap(attempt) == BackoffBase * Pow2(attempt)

\* Math.min(1000 * Math.pow(2, attempt), 10000)
delay(attempt) == Min(BackoffBase * Pow2(attempt), BackoffCap)

NoTimer == -1

\* what the caller has seen of the call before this one
NoPrev ==
    [pc |-> "none", result |-> "none", status |-> 0, hit |-> FALSE,
     same |-> FALSE, soon |-> FALSE]

\* the caller has not aborted
NoAbort == [fetches |-> -1, waits |-> -1]

IdleCall ==
    [pc |-> "idle", opts |-> <<>>, useCache |-> FALSE, retries |-> 0, key |-> <<>>,
     attempt |-> 0, lastError |-> NoError, status |-> 0,
     started |-> 0,         \* when the last attempt started
     timer |-> NoTimer,     \* when the running attempt's abort timer is due
     wake |-> NoTimer,      \* when the running backoff wait ends
     result |-> "none", thrown |-> NoError,
     \* observations of the call
     fetches |-> 0,         \* fetches issued
     timeouts |-> 0,        \* attempts ended by the abort timer
     waits |-> <<>>,        \* backoff delays waited
     hit |-> FALSE,         \* returned from the cache
     wrote |-> FALSE,       \* stored its response in the cache
     pre |-> NoEntry,       \* the entry under its key when it was called
     began |-> 0, ended |-> 0,
     abort |-> NoAbort,     \* what the call had done when its caller aborted
     after |-> NoPrev]      \* the call made before it

\* the finished call r, as seen when the next call is made at time t with the
\* given arguments: how it ended, whether the arguments are the same, and whether
\* it ended at most ttlMs ago
Summary(r, opts, useCache, retries, t, ttlMs) ==
    IF r.pc \in {"done", "failed"}
    THEN [pc |-> r.pc, result |-> r.result,
          status |-> IF r.pc = "done" THEN r.status ELSE 0, hit |-> r.hit,
          same |-> r.opts = opts /\ r.useCache = useCache /\ r.retries = retries,
          soon |-> t - r.ended <= ttlMs]
    ELSE NoPrev

Finished(r) == r.pc \in {"idle", "done", "failed"}

\* new Error('Request failed after all retries.')
ExhaustedError ==
    [kind |-> "exhausted", status |-> 0,
     message |-> <<"f", "a", "i", "l", "e", "d">>, attempt |-> -1]

\* the body of the for loop up to the await of fetch: a timer and a fetch start
StartAttempt(r, t) ==
    [r EXCEPT !.pc = "fetching", !.started = t, !.timer = t + DefaultTimeout,
              !.wake = NoTimer, !.fetches = @ + 1]

\* throw lastError || new Error('Request failed after all retries.')
Throw(r, t) ==
    [r EXCEPT !.pc = "failed",
              !.thrown = IF r.lastError = NoError THEN ExhaustedError ELSE r.lastError,
              !.ended = t, !.timer = NoTimer]

\* (mutation of OnAttemptError: only '404' ends the loop)
OnAttemptError_Only404(r, err, t) ==
    LET r1 == [r EXCEPT !.lastError = err] IN
    IF Includes(err.message, <<"4", "0", "4">>) THEN Throw(r1, t)
    ELSE IF r.attempt < r.retries
         THEN [r1 EXCEPT !.pc = "backoff", !.timer = NoTimer,
                         !.wake = t + delay(r.attempt),
                         !.waits = Append(@, delay(r.attempt))]
         ELSE Throw(r1, t)

\* (mutation of OnAttemptError: the last retry is not made)
OnAttemptError_OneLess(r, err, t) ==
    LET r1 == [r EXCEPT !.lastError = err] IN
    IF IsTerminalMessage(err.message) THEN Throw(r1, t)
    ELSE IF r.attempt + 1 < r.retries
         THEN [r1 EXCEPT !.pc = "backoff", !.timer = NoTimer,
                         !.wake = t + delay(r.attempt),
                         !.waits = Append(@, delay(r.attempt))]
         ELSE Throw(r1, t)

\* (mutation of OnAttemptError: the first error is kept)
OnAttemptError_KeepFirst(r, err, t) ==
    LET r1 == [r EXCEPT !.lastError = IF @ = NoError THEN err ELSE @] IN
    IF IsTerminalMessage(err.message) THEN Throw(r1, t)
    ELSE IF r.attempt < r.retries
         THEN [r1 EXCEPT !.pc = "backoff", !.timer = NoTimer,
                         !.wake = t + delay(r.attempt),
                         !.waits = Append(@, delay(r.attempt))]
         ELSE Throw(r1, t)

\* (mutation of OnAttemptError: a retry is made after the last allowed attempt)
OnAttemptError_NoLimit(r, err, t) ==
    LET r1 == [r EXCEPT !.lastError = err] IN
    IF IsTerminalMessage(err.message) THEN Throw(r1, t)
    ELSE IF r.attempt <= r.retries
         THEN [r1 EXCEPT !.pc = "backoff", !.timer = NoTimer,
                         !.wake = t + delay(r.attempt),
                         !.waits = Append(@, delay(r.attempt))]
         ELSE Throw(r1, t)

\* (mutation of OnAttemptError: the backoff wait is made before the error is
\* thrown, too)
OnAttemptError_WaitBeforeThrow(r, err, t) ==
    LET r1 == [r EXCEPT !.lastError = err] IN
    IF IsTerminalMessage(err.message) THEN Throw(r1, t)
    ELSE IF r.attempt < r.retries
         THEN [r1 EXCEPT !.pc = "backoff", !.timer = NoTimer,
                         !.wake = t + delay(r.attempt),
                         !.waits = Append(@, delay(r.attempt))]
         ELSE [Throw(r1, t + delay(r.attempt)) EXCEPT
                 !.waits = Append(@, delay(r.attempt))]

\* the catch block, and what follows when the loop is left
OnAttemptError(r, err, t) ==
    LET r1 == [r EXCEPT !.lastError = err] IN
    IF IsTerminalMessage(err.message) THEN Throw(r1, t)
    ELSE IF r.attempt < r.retries
         THEN [r1 EXCEPT !.pc = "backoff", !.timer = NoTimer,
                         !.wake = t + delay(r.attempt),
                         !.waits = Append(@, delay(r.attempt))]
         ELSE Throw(r1, t)

InitClient ==
    /\ cache = EmptyMap
    /\ ttl = ClientCacheTtl
    /\ now = 0
    /\ call = IdleCall
    /\ made = 0
    /\ calls = <<>>
    /\ keyed = <<>>
    /\ api = <<>>
    /\ search = <<>>
    /\ sync = <<>>
    /\ limiter = <<>>
    /\ secure = <<>>
    /\ monitor = <<>>
    /\ sanitized = <<>>
    /\ app = <<>>
    /\ last = NoOp
    /\ written = [k \in CacheKeys |-> NoWrite]
    /\ cleared = [k \in CacheKeys |-> "no"]

\* request(endpoint, {useCache, retries, ...fetchOptions}) up to its first await,
\* or to its return on a cache hit; the caller has awaited the call before
Request(limit, endpoint, opts, useCache, retries) ==
    /\ Finished(call)
    /\ made < limit
    /\ made' = made + 1
    /\ LET key == cacheKey(endpoint, opts)
           consult == ConsultsCache(useCache, opts)
           cached == get_return(cache, key, now, ttl)
           r == [IdleCall EXCEPT !.opts = opts, !.useCache = useCache,
                    !.retries = retries, !.key = key,
                    !.pre = EntryOf(cache, key), !.began = now,
                    !.after = Summary(call, opts, useCache, retries, now, ttl)]
       IN /\ cache' = IF consult THEN get_cache(cache, key, now, ttl) ELSE cache
          /\ call' = IF consult /\ Truthy(cached)
                     THEN [r EXCEPT !.pc = "done", !.result = cached, !.hit = TRUE,
                                    !.ended = now]
                     ELSE IF 0 <= retries THEN StartAttempt(r, now)
                     ELSE Throw(r, now)
    /\ UNCHANGED <<ttl, now, last, written, cleared, appVars>>

\* fetch resolves with a response before the timer fires; the timer is cleared
FetchResolve(status, statusText) ==
    /\ call.pc = "fetching"
    /\ call' = IF ResponseOk(status)
               THEN [call EXCEPT !.pc = "decoding", !.status = status,
                                 !.timer = NoTimer]
               ELSE OnAttemptError([call EXCEPT !.status = status],
                                   HttpError(status, statusText, call.attempt), now)
    /\ UNCHANGED <<cache, ttl, now, last, written, cleared, made, appVars>>

\* fetch rejects: the network failed
FetchReject(msg) ==
    /\ call.pc = "fetching"
    /\ call' = OnAttemptError(call, NetworkError(msg, call.attempt), now)
    /\ UNCHANGED <<cache, ttl, now, last, written, cleared, made, appVars>>

\* the timer fires: controller.abort() makes the pending fetch reject
Timeout ==
    /\ call.pc = "fetching"
    /\ now >= call.timer
    /\ call' = OnAttemptError([call EXCEPT !.timeouts = @ + 1],
                              TimeoutError(call.attempt), now)
    /\ UNCHANGED <<cache, ttl, now, last, written, cleared, made, appVars>>

\* response.json() resolves: the body is stored when cacheable and returned
DecodeOk(body) ==
    /\ call.pc = "decoding"
    /\ LET store == StoresResponse(call.useCache, call.status)
       IN /\ cache' = IF store THEN set_cache(cache, call.key, body, now) ELSE cache
          /\ call' = [call EXCEPT !.pc = "done", !.result = body, !.wrote = store,
                                  !.ended = now]
    /\ UNCHANGED <<ttl, now, last, written, cleared, made, appVars>>

\* response.json() rejects: the body is not JSON
DecodeFail(msg) ==
    /\ call.pc = "decoding"
    /\ call' = OnAttemptError(call, DecodeError(msg, call.attempt), now)
    /\ UNCHANGED <<cache, ttl, now, last, written, cleared, made, appVars>>

\* the backoff wait ends: the loop goes on with the next attempt
BackoffDone ==
    /\ call.pc = "backoff"
    /\ now >= call.wake
    /\ call' = StartAttempt([call EXCEPT !.attempt = @ + 1], now)
    /\ UNCHANGED <<cache, ttl, now, last, written, cleared, made, appVars>>

\* the times at which a pending timer is due
Deadlines == {call.timer, call.wake} \ {NoTimer}

\* time passes, up to the next timer that is due
Tick(d) ==
    /\ \A t \in Deadlines : t > now
    /\ LET target == IF \E t \in Deadlines : t < now + d
                     THEN CHOOSE t \in Deadlines : \A u \in Deadlines : t <= u
                     ELSE now + d
       IN /\ target <= MaxClock
          /\ now' = target
    /\ UNCHANGED <<cache, ttl, last, written, cleared, clientVars, appVars>>

\* the steps of a client whose caller makes up to `limit` calls, one after the
\* other, with the given inputs and network answers
ClientStep(limit, optChoices, retryChoices, responses, bodies, netMsgs, decMsgs) ==
    \/ \E o \in optChoices, u \in BOOLEAN, n \in retryChoices :
          Request(limit, Endpoint, o, u, n)
    \/ \E rs \in responses : FetchResolve(rs[1], rs[2])
    \/ \E m \in netMsgs : FetchReject(m)
    \/ Timeout
    \/ \E b \in bodies : DecodeOk(b)
    \/ \E m \in decMsgs : DecodeFail(m)
    \/ BackoffDone
    \/ Tick(ClientCacheTtl)

(* One call on a fresh client, with every kind of failure *)
NextClient ==
    ClientStep(1, FetchOptionChoices, 0..MaxRetries, Responses, Bodies,
               NetworkMessages, DecodeMessages)

SpecClient == InitClient /\ [][NextClient]_vars

(* Calls made one after the other on one client, sharing its cache *)
CachingRetryChoices == {0, 1}
CachingOptionChoices == { <<>>, << <<"method", "POST">> >> }
CachingResponses == {rs \in Responses : rs[2] = <<>> /\ rs[1] \in {200, 201, 500}}
CachingNetworkMessages == {m \in NetworkMessages : ~IsTerminalMessage(m)}
CachingDecodeMessages == {m \in DecodeMessages : ~IsTerminalMessage(m)}

NextCaching ==
    ClientStep(MaxCalls, CachingOptionChoices, CachingRetryChoices, CachingResponses,
               Bodies, CachingNetworkMessages, CachingDecodeMessages)

SpecCaching == InitClient /\ [][NextCaching]_vars

----------------------------------------------------------------------------
(* Properties of AdvancedApiClient.request and its cache, checked under
   SpecCaching *)

ReadsCache(r) == r.useCache /\ MethodOf(r.opts) # "POST"

FreshAtCall(r) == r.pre # NoEntry /\ r.began - r.pre.timestamp <= ttl

\* C5 (as claimed): a call with useCache true and a method other than POST that
\* finds an unexpired entry under its key returns the stored value, whatever it
\* is, and issues no fetch.
C5_FreshEntryIsReturned ==
    (call.pc # "idle" /\ ReadsCache(call) /\ FreshAtCall(call)) =>
        /\ call.pc = "done" /\ call.hit
        /\ call.result = call.pre.data
        /\ call.fetches = 0

\* C6 (as claimed, for a first call that returned a truthy value): when the call
\* before succeeded, had the same endpoint and options with useCache true, and
\* ended at most ttl before this call began, this call returns the same value and
\* issues no fetch.
C6_RepeatedCallIsServedFromCache ==
    (call.pc # "idle" /\ call.useCache
        /\ call.after.pc = "done" /\ Truthy(call.after.result)
        /\ call.after.same /\ call.after.soon) =>
        /\ call.pc = "done"
        /\ call.result = call.after.result
        /\ call.fetches = 0

\* C6 (amended): when the call before fetched a response of status exactly 200
\* with a truthy decoded body, had the same endpoint and options with useCache
\* true and a method other than POST, and ended at most ttl before this call began,
\* this call returns the same value and issues no fetch.
C6_RepeatedCallAfterStored200 ==
    (call.pc # "idle" /\ ReadsCache(call)
        /\ call.after.pc = "done" /\ ~call.after.hit /\ call.after.status = 200
        /\ Truthy(call.after.result)
        /\ call.after.same /\ call.after.soon) =>
        /\ call.pc = "done" /\ call.hit
        /\ call.result = call.after.result
        /\ call.fetches = 0

\* the second of two equal calls found the entry of the first at age exactly ttl
\* and returned its value
C6_Witness ==
    /\ call.pc = "done" /\ call.hit /\ call.fetches = 0
    /\ call.after.pc = "done" /\ ~call.after.hit /\ call.after.status = 200
    /\ call.after.same /\ call.after.soon
    /\ call.result = call.after.result
    /\ call.began - call.pre.timestamp = ttl

\* C7 (as claimed): a call that returns a fetched response has written it to the
\* cache if and only if its method is not POST, the status is exactly 200 and
\* useCache is true; no entry is ever held under the key of a POST request.
C7_WritesOnlyCacheable ==
    /\ (call.pc = "done" /\ ~call.hit) =>
            (call.wrote <=> (MethodOf(call.opts) # "POST" /\ call.status = 200
                                /\ call.useCache))
    /\ \A k \in DOMAIN cache : MethodOf(k[2]) # "POST"

----------------------------------------------------------------------------
(* Properties of the retry loop of AdvancedApiClient.request, checked under
   SpecClient *)

IsClientStatus(err) == err.kind = "http" /\ err.status \in {400, 404}

\* C8: a response of status 400 or 404 ends the call at once: the call has failed
\* with that error, whose message carries the status, and has made no attempt and
\* no backoff wait after it; as a first attempt, it is the only fetch.
C8_ClientStatusEndsCall ==
    IsClientStatus(call.lastError) =>
        /\ call.pc = "failed"
        /\ call.thrown = call.lastError
        /\ Includes(call.thrown.message, ToStr(call.lastError.status))
        /\ call.fetches = call.lastError.attempt + 1
        /\ Len(call.waits) = call.lastError.attempt
        /\ (call.lastError.attempt = 0 => call.fetches = 1 /\ call.waits = <<>>)

\* a first attempt answered 400 ended a call that had a retry left
C8_Witness ==
    /\ call.pc = "failed" /\ call.retries >= 1
    /\ call.lastError.kind = "http" /\ call.lastError.status = 400
    /\ call.lastError.attempt = 0 /\ call.fetches = 1

\* C9 (as claimed): every failure of an attempt other than a response of status
\* 400 or 404 is retryable: when the attempt index is less than retries, the call
\* does not fail on it but goes on to another attempt.
C9_OtherFailuresAreRetried ==
    (call.lastError # NoError /\ ~IsClientStatus(call.lastError)
        /\ call.lastError.attempt < call.retries) =>
        call.pc # "failed"

\* C10: while every attempt of a call has timed out, the call waits for its next
\* attempt as long as it has issued at most retries fetches; after retries + 1
\* fetches it has failed, throwing the timeout error of its last attempt.
C10_AllAttemptsTimeOut ==
    (call.fetches >= 1 /\ call.timeouts = call.fetches) =>
        IF call.fetches <= call.retries
        THEN call.pc = "backoff"
        ELSE /\ call.pc = "failed"
             /\ call.fetches = call.retries + 1
             /\ call.thrown = TimeoutError(call.retries)

\* a call with a retry has failed after two attempts that both timed out
C10_Witness ==
    /\ call.pc = "failed" /\ call.retries >= 1
    /\ call.timeouts = call.fetches /\ call.fetches = call.retries + 1
    /\ call.thrown.kind = "timeout"

----------------------------------------------------------------------------
(* One call that may retry often enough for the backoff to reach its cap *)

MaxWaits == 6

BackoffRetryChoices == 0..MaxWaits
BackoffResponses == {rs \in Responses : rs[2] = <<>> /\ rs[1] \in {200, 500}}

NextBackoff ==
    ClientStep(1, {<<>>}, BackoffRetryChoices, BackoffResponses, {"{a}"},
               CachingNetworkMessages, CachingDecodeMessages)

SpecBackoff == InitClient /\ [][NextBackoff]_vars

\* the documented waits: 1000, 2000, 4000, 8000, then 10000
DocumentedWait(k) ==
    CASE k = 0 -> 1000 [] k = 1 -> 2000 [] k = 2 -> 4000 [] k = 3 -> 8000
      [] OTHER -> 10000

\* C11: the i-th backoff wait of a call follows the failure of attempt i - 1 and
\* is min(1000 * 2^(i-1), 10000) ms: 1000, 2000, 4000, 8000, then 10000; the waits
\* of a call never decrease and never exceed 10000; a running wait ends exactly
\* that long after the failure.
C11_BackoffWaits ==
    /\ \A i \in 1..Len(call.waits) :
          /\ call.waits[i] = DocumentedWait(i - 1)
          /\ call.waits[i] <= 10000
          /\ i > 1 => call.waits[i - 1] <= call.waits[i]
    /\ call.pc = "backoff" =>
          /\ Len(call.waits) = call.attempt + 1
          /\ call.wake - now \in 0..call.waits[Len(call.waits)]
          /\ call.lastError.attempt = call.attempt

\* a call is in its sixth backoff wait: the waits so far are 1000, 2000, 4000,
\* 8000, 10000 and 10000
C11_Witness ==
    /\ call.pc = "backoff"
    /\ call.waits = <<1000, 2000, 4000, 8000, 10000, 10000>>

----------------------------------------------------------------------------
(* Outcomes of AdvancedApiClient.request, checked under SpecClient *)

\* C12: a call with retries >= 0 that has ended has either returned or thrown,
\* never both. What it returned is the value found in the cache, with no fetch
\* made, or the decoded body of the 2xx response to its last attempt. What it
\* threw is the error of its last attempt, which is the last fetch it issued; it
\* returned nothing then.
C12_ReturnsBodyOrThrowsLastError ==
    /\ (call.pc = "done" /\ call.retries >= 0) =>
          /\ call.thrown = NoError
          /\ IF call.hit
             THEN call.result = call.pre.data /\ call.fetches = 0
             ELSE /\ ResponseOk(call.status)
                  /\ call.result \in Bodies
                  /\ call.fetches = call.attempt + 1
    /\ (call.pc = "failed" /\ call.retries >= 0) =>
          /\ call.result = "none"
          /\ call.thrown # NoError /\ call.thrown # ExhaustedError
          /\ call.thrown = call.lastError
          /\ call.thrown.attempt = call.attempt
          /\ call.fetches = call.attempt + 1

\* a call whose first attempt timed out has thrown the HTTP error of its second
\* attempt
C12_Witness ==
    /\ call.pc = "failed" /\ call.retries >= 1
    /\ call.timeouts = 1 /\ call.fetches = 2
    /\ call.thrown.kind = "http" /\ call.thrown.attempt = 1

----------------------------------------------------------------------------
(* The timeout of an attempt, checked under SpecClient *)

\* an attempt is in flight from its fetch until its body is decoded
InFlight(r) == r.pc \in {"fetching", "decoding"}

\* C13 (as claimed): no attempt is in flight, waiting for its response or for
\* the decoding of its body, longer than the timeout after its start.
C13_NoAttemptOutlivesTimeout ==
    InFlight(call) => now - call.started <= DefaultTimeout

----------------------------------------------------------------------------
(* Cancellation by the caller: the options carry the signal of an
   AbortController of the caller, who aborts it while an attempt is in flight *)

CallerSignal == "caller"
AttemptSignal == "attempt"

\* the value of property `name` of an object written as a list of properties: the
\* last one written wins
PropOf(obj, name) ==
    IF \E i \in 1..Len(obj) : obj[i][1] = name
    THEN obj[CHOOSE i \in 1..Len(obj) :
                /\ obj[i][1] = name
                /\ \A j \in (i + 1)..Len(obj) : obj[j][1] # name][2]
    ELSE "undefined"

\* the init object of fetch: { ...fetchOptions, signal: controller.signal, headers }
FetchInit(opts) ==
    opts \o << <<"signal", AttemptSignal>>, <<"headers", "merged">> >>

AbortOptionChoices ==
    { << <<"signal", CallerSignal>> >>,
      << <<"method", "GET">>, <<"signal", CallerSignal>> >> }

\* the caller calls abort() on its controller: a fetch that was given the caller's
\* signal rejects with an AbortError, any other fetch goes on
CallerAbort ==
    /\ InFlight(call)
    /\ call.abort = NoAbort
    /\ PropOf(call.opts, "signal") = CallerSignal
    /\ LET r == [call EXCEPT !.abort = [fetches |-> call.fetches,
                                        waits |-> Len(call.waits)]]
       IN call' = IF PropOf(FetchInit(call.opts), "signal") = CallerSignal
                  THEN OnAttemptError(r, TimeoutError(call.attempt), now)
                  ELSE r
    /\ UNCHANGED <<cache, ttl, now, last, written, cleared, made, appVars>>

NextAbort ==
    \/ ClientStep(1, AbortOptionChoices, 0..MaxRetries, CachingResponses, Bodies,
                  CachingNetworkMessages, CachingDecodeMessages)
    \/ CallerAbort

SpecAbort == InitClient /\ [][NextAbort]_vars

\* C14 (as claimed): once the caller has aborted while an attempt was in flight,
\* that attempt's fetch is cancelled, and the call issues no further fetch, waits
\* no further backoff and writes nothing to the cache.
C14_CallerAbortEndsCall ==
    call.abort # NoAbort =>
        /\ ~InFlight(call)
        /\ call.fetches = call.abort.fetches
        /\ Len(call.waits) = call.abort.waits
        /\ ~call.wrote

----------------------------------------------------------------------------
(* Termination of a call. Timers fire and time passes: the abort timer of a
   pending fetch and the timer of a backoff wait are callbacks the event loop
   runs once they are due. Nothing makes a response or its body arrive. *)

\* time passes until the next pending timer is due, however late that is
TimerTick ==
    /\ Deadlines # {}
    /\ \A t \in Deadlines : t > now
    /\ now' = CHOOSE t \in Deadlines : \A u \in Deadlines : t <= u
    /\ UNCHANGED <<cache, ttl, last, written, cleared, clientVars, appVars>>

NextClientFair == NextClient \/ TimerTick

SpecClientFair ==
    /\ InitClient /\ [][NextClientFair]_vars
    /\ WF_vars(Timeout)
    /\ WF_vars(BackoffDone)
    /\ WF_vars(TimerTick)

Ended(r) == r.pc \in {"done", "failed"}

\* C15 (as claimed): every call that was made eventually has returned or thrown,
\* given that timers fire, so that every pending fetch settles or is aborted; and
\* once it has returned or thrown it issues no fetch, writes no cache entry and
\* waits no backoff.
C15_EveryCallEnds ==
    /\ (call.pc # "idle") ~> Ended(call)
    /\ [][Ended(call) => (call' = call /\ cache' = cache)]_vars

----------------------------------------------------------------------------
(* Calls of request that run at the same time on one client. Each caller makes
   one call; the calls interleave at their awaits (fetch, response.json(), the
   backoff wait) and share the cache. The code between two awaits runs without
   interruption. An attempt fails here by an error status or by its timeout;
   the catch block treats a rejected fetch and an undecodable body the same
   way. *)

Callers == {"c1", "c2"}

ConcurrentRetryChoices == {0, 1}
ConcurrentOptionChoices == CachingOptionChoices
ConcurrentResponses == CachingResponses

\* the bodies the server sends, as JSON text: each names the method it answers
\* and the version of the resource at that moment
GetBodies == {"{get v1}", "{get v2}"}
PostBodies == {"{post v1}", "{post v2}"}

\* the bodies that can answer the request of call r
ConcurrentBodies(r) == IF MethodOf(r.opts) = "POST" THEN PostBodies ELSE GetBodies

InitConcurrent ==
    /\ cache = EmptyMap
    /\ ttl = ClientCacheTtl
    /\ now = 0
    /\ call = IdleCall
    /\ made = 0
    /\ last = NoOp
    /\ written = [k \in CacheKeys |-> NoWrite]
    /\ cleared = [k \in CacheKeys |-> "no"]
    /\ calls = [c \in Callers |-> IdleCall]
    /\ keyed = <<>>
    /\ api = <<>>
    /\ search = <<>>
    /\ sync = <<>>
    /\ limiter = <<>>
    /\ secure = <<>>
    /\ monitor = <<>>
    /\ sanitized = <<>>
    /\ app = <<>>

ConcurrentUnchanged ==
    UNCHANGED <<ttl, last, written, cleared, call, made, keyed, api, search, sync,
                moreVars>>

\* caller c calls request: up to the first await, or to the return on a cache hit;
\* the callers are named in the order in which they call
ConcurrentRequest(c, endpoint, opts, useCache, retries) ==
    /\ calls[c].pc = "idle"
    /\ c = "c2" => calls["c1"].pc # "idle"
    /\ LET key == cacheKey(endpoint, opts)
           consult == ConsultsCache(useCache, opts)
           cached == get_return(cache, key, now, ttl)
           r == [IdleCall EXCEPT !.opts = opts, !.useCache = useCache,
                    !.retries = retries, !.key = key, !.began = now]
       IN /\ cache' = IF consult THEN get_cache(cache, key, now, ttl) ELSE cache
          /\ calls' = [calls EXCEPT ![c] =
                        IF consult /\ Truthy(cached)
                        THEN [r EXCEPT !.pc = "done", !.result = cached,
                                       !.hit = TRUE, !.ended = now]
                        ELSE IF 0 <= retries THEN StartAttempt(r, now)
                        ELSE Throw(r, now)]
    /\ UNCHANGED now
    /\ ConcurrentUnchanged

ConcurrentFetchResolve(c, status, statusText) ==
    /\ calls[c].pc = "fetching"
    /\ calls' = [calls EXCEPT ![c] =
                   IF ResponseOk(status)
                   THEN [@ EXCEPT !.pc = "decoding", !.status = status,
                                  !.timer = NoTimer]
                   ELSE OnAttemptError([@ EXCEPT !.status = status],
                                       HttpError(status, statusText, @.attempt), now)]
    /\ UNCHANGED <<cache, now>>
    /\ ConcurrentUnchanged

ConcurrentTimeout(c) ==
    /\ calls[c].pc = "fetching"
    /\ now >= calls[c].timer
    /\ calls' = [calls EXCEPT ![c] =
                   OnAttemptError([@ EXCEPT !.timeouts = @ + 1],
                                  TimeoutError(@.attempt), now)]
    /\ UNCHANGED <<cache, now>>
    /\ ConcurrentUnchanged

ConcurrentDecodeOk(c, body) ==
    /\ calls[c].pc = "decoding"
    /\ LET store == StoresResponse(calls[c].useCache, calls[c].status)
       IN /\ cache' = IF store THEN set_cache(cache, calls[c].key, body, now)
                      ELSE cache
          /\ calls' = [calls EXCEPT ![c] =
                         [@ EXCEPT !.pc = "done", !.result = body, !.wrote = store,
                                   !.ended = now]]
    /\ UNCHANGED now
    /\ ConcurrentUnchanged

ConcurrentBackoffDone(c) ==
    /\ calls[c].pc = "backoff"
    /\ now >= calls[c].wake
    /\ calls' = [calls EXCEPT ![c] = StartAttempt([@ EXCEPT !.attempt = @ + 1], now)]
    /\ UNCHANGED <<cache, now>>
    /\ ConcurrentUnchanged

\* the times at which a timer of some call is due
ConcurrentDeadlines ==
    UNION {{calls[c].timer, calls[c].wake} : c \in Callers} \ {NoTimer}

\* time passes, up to the next timer that is due
ConcurrentTick ==
    /\ ConcurrentDeadlines # {}
    /\ \A t \in ConcurrentDeadlines : t > now
    /\ now' = CHOOSE t \in ConcurrentDeadlines : \A u \in ConcurrentDeadlines : t <= u
    /\ UNCHANGED <<cache, calls>>
    /\ ConcurrentUnchanged

NextConcurrent ==
    \E c \in Callers :
        \/ \E o \in ConcurrentOptionChoices, u \in BOOLEAN,
              n \in ConcurrentRetryChoices : ConcurrentRequest(c, Endpoint, o, u, n)
        \/ \E rs \in ConcurrentResponses : ConcurrentFetchResolve(c, rs[1], rs[2])
        \/ ConcurrentTimeout(c)
        \/ \E b \in ConcurrentBodies(calls[c]) : ConcurrentDecodeOk(c, b)
        \/ ConcurrentBackoffDone(c)
        \/ ConcurrentTick

SpecConcurrent == InitConcurrent /\ [][NextConcurrent]_vars

\* the calls that have written the cache entry of key k
Writers(k) == {c \in Callers : calls[c].key = k /\ calls[c].wrote}

\* C16: every cache entry that exists was written by a call with that key, and is
\* the whole decoded body that call returned, a body that answers its own
\* request with status 200, together with the time of that write; no call has
\* written the same key at a later time (the last writer wins).
C16_EntriesAreWholeResponses ==
    \A k \in DOMAIN cache :
        /\ cache[k].data \in ConcurrentBodies([opts |-> k[2]])
        /\ \E c \in Writers(k) :
              /\ calls[c].pc = "done" /\ calls[c].status = 200 /\ calls[c].useCache
              /\ cache[k] = [data |-> calls[c].result, timestamp |-> calls[c].ended]
        /\ \A c \in Writers(k) : calls[c].ended <= cache[k].timestamp

\* two calls with the same key were in flight together; the one that called
\* first wrote the entry at a later time than the other, with another version,
\* and its write is the entry
C16_Witness ==
    /\ calls["c1"].wrote /\ calls["c2"].wrote
    /\ calls["c1"].key = calls["c2"].key
    /\ calls["c2"].began < calls["c2"].ended
    /\ calls["c2"].ended < calls["c1"].ended
    /\ calls["c1"].result # calls["c2"].result
    /\ cache[calls["c1"].key] =
          [data |-> calls["c1"].result, timestamp |-> calls["c1"].ended]

----------------------------------------------------------------------------
(* The cache key of request, as a function of the options object. The options
   are the properties the caller wrote, in the order written. *)

MaxProps == 3

OptionProps ==
    { <<"method", "GET">>, <<"method", "POST">>, <<"headers", "{accept}">>,
      <<"useCache", "true">>, <<"useCache", "false">>,
      <<"retries", "0">>, <<"retries", "5">> }

\* object literals of up to MaxProps properties, no name written twice
OptionObjects ==
    {o \in UNION {[1..n -> OptionProps] : n \in 0..MaxProps} :
        \A i, j \in 1..Len(o) : o[i][1] = o[j][1] => i = j}

\* const { useCache = true, retries = this.maxRetries, ...fetchOptions } = options
FetchOptionsOf(options) ==
    SelectSeq(options, LAMBDA p : p[1] \notin {"useCache", "retries"})

\* the cacheKey that request(endpoint, options) computes
RequestKey(endpoint, options) == cacheKey(endpoint, FetchOptionsOf(options))

\* what the fetch of a call depends on: its method, headers and body
EffectiveParams(options) ==
    {FetchOptionsOf(options)[i] : i \in 1..Len(FetchOptionsOf(options))}

NoKey == <<>>

InitKeys ==
    /\ cache = EmptyMap
    /\ ttl = ClientCacheTtl
    /\ now = 0
    /\ call = IdleCall
    /\ made = 0
    /\ last = NoOp
    /\ written = [k \in CacheKeys |-> NoWrite]
    /\ cleared = [k \in CacheKeys |-> "no"]
    /\ calls = <<>>
    /\ keyed \in [a : OptionObjects, b : OptionObjects, ka : {NoKey}, kb : {NoKey}]
    /\ api = <<>>
    /\ search = <<>>
    /\ sync = <<>>
    /\ limiter = <<>>
    /\ secure = <<>>
    /\ monitor = <<>>
    /\ sanitized = <<>>
    /\ app = <<>>

\* two calls on the same endpoint compute their keys
ComputeKeys ==
    /\ keyed.ka = NoKey
    /\ keyed' = [keyed EXCEPT !.ka = RequestKey(Endpoint, keyed.a),
                              !.kb = RequestKey(Endpoint, keyed.b)]
    /\ UNCHANGED <<cacheVars, ghostVars, clientVars, calls, api, search, sync,
                   moreVars>>

NextKeys == ComputeKeys

SpecKeys == InitKeys /\ [][NextKeys]_vars

\* C17 (as claimed): two calls with the same endpoint whose options hold the same
\* fetch parameters, written in whatever order and with whatever useCache and
\* retries, get the same cache key.
C17_SameParamsSameKey ==
    (keyed.ka # NoKey /\ EffectiveParams(keyed.a) = EffectiveParams(keyed.b)) =>
        keyed.ka = keyed.kb

----------------------------------------------------------------------------
(* useApi(apiCall, dependencies): a component that uses the hook. Every run of
   fetchData awaits one promise of apiCall; the promises settle in any order.
   React drops the state updates of a component that has unmounted. *)

MaxRuns == 3

ApiResults == {"v1", "v2"}

\* what apiCall can reject with: an Error, an AbortError, a value that is no Error
ApiRejections ==
    { [isError |-> TRUE, name |-> "Error", message |-> "failed"],
      [isError |-> TRUE, name |-> "AbortError", message |-> "aborted"],
      [isError |-> FALSE, name |-> "none", message |-> "none"] }

\* no rejection has been handled since the last run started
NoRejection == [run |-> 0, isError |-> FALSE, name |-> "null", message |-> "null"]

\* the state after the first render: useState(null), useState(false),
\* useState(null), useRef(null)
InitialApi ==
    [phase |-> "rendered",      \* "rendered", "mounted" or "unmounted"
     data |-> "null", loading |-> FALSE, error |-> "null",
     controller |-> 0,          \* abortControllerRef.current: 0 is null, k the
                                \* controller made by run k
     aborted |-> FALSE,         \* whether that controller has aborted
     runs |-> 0,                \* runs of fetchData started
     pending |-> {},            \* the runs whose apiCall promise is pending
     \* observations
     dataRun |-> 0,             \* the run whose result is in data (0: none)
     dataNewest |-> 0,          \* the newest run when data was written
     errorRun |-> 0,            \* the run whose error is in error (0: none)
     errorNewest |-> 0,         \* the newest run when error was written
     rejected |-> NoRejection]  \* the rejection whose handling was the last
                                \* thing the hook did, and its run

InitApi ==
    /\ cache = EmptyMap
    /\ ttl = ClientCacheTtl
    /\ now = 0
    /\ call = IdleCall
    /\ made = 0
    /\ last = NoOp
    /\ written = [k \in CacheKeys |-> NoWrite]
    /\ cleared = [k \in CacheKeys |-> "no"]
    /\ calls = <<>>
    /\ keyed = <<>>
    /\ api = InitialApi
    /\ search = <<>>
    /\ sync = <<>>
    /\ limiter = <<>>
    /\ secure = <<>>
    /\ monitor = <<>>
    /\ sanitized = <<>>
    /\ app = <<>>

\* fetchData up to its await: the controller of the run before is aborted and
\* replaced, loading is set, error is cleared, apiCall() is called
fetchData(a) ==
    [a EXCEPT !.controller = a.runs + 1, !.aborted = FALSE,
              !.loading = TRUE, !.error = "null", !.errorRun = 0, !.errorNewest = 0,
              !.runs = a.runs + 1, !.pending = @ \cup {a.runs + 1},
              !.rejected = NoRejection]

\* the rest of fetchData when the promise of run k resolves: setData(result), and
\* setLoading(false) in the finally block
OnResolve(a, k, result) ==
    LET a1 == [a EXCEPT !.pending = @ \ {k}] IN
    IF a.phase = "mounted"
    THEN [a1 EXCEPT !.data = result, !.dataRun = k, !.dataNewest = a.runs,
                    !.loading = FALSE, !.rejected = NoRejection]
    ELSE a1

\* the rest of fetchData when the promise of run k rejects: the catch block and
\* the finally block
OnReject(a, k, err) ==
    LET a1 == [a EXCEPT !.pending = @ \ {k},
                        !.rejected = [run |-> k, isError |-> err.isError,
                                      name |-> err.name, message |-> err.message]] IN
    IF a.phase = "mounted"
    THEN IF err.isError /\ err.name # "AbortError"
         THEN [a1 EXCEPT !.error = err.message, !.errorRun = k,
                         !.errorNewest = a.runs, !.loading = FALSE]
         ELSE [a1 EXCEPT !.loading = FALSE]
    ELSE a1

ApiUnchanged ==
    UNCHANGED <<cacheVars, ghostVars, clientVars, calls, keyed, search, sync,
                moreVars>>

\* the effect runs after the first render
ApiMount ==
    /\ api.phase = "rendered"
    /\ api' = fetchData([api EXCEPT !.phase = "mounted"])
    /\ ApiUnchanged

\* the component calls refetch()
ApiRefetch ==
    /\ api.phase = "mounted"
    /\ api.runs < MaxRuns
    /\ api' = fetchData(api)
    /\ ApiUnchanged

\* a dependency changes: the cleanup of the effect aborts the controller, then
\* the effect runs the new fetchData
ApiDependencyChange ==
    /\ api.phase = "mounted"
    /\ api.runs < MaxRuns
    /\ api' = fetchData([api EXCEPT !.aborted = TRUE])
    /\ ApiUnchanged

\* the component unmounts: the cleanup of the effect aborts the controller
ApiUnmount ==
    /\ api.phase = "mounted"
    /\ api' = [api EXCEPT !.phase = "unmounted", !.aborted = TRUE]
    /\ ApiUnchanged

\* the promise of run k resolves
ApiResolve(k, result) ==
    /\ k \in api.pending
    /\ api' = OnResolve(api, k, result)
    /\ ApiUnchanged

\* the promise of run k rejects
ApiReject(k, err) ==
    /\ k \in api.pending
    /\ api' = OnReject(api, k, err)
    /\ ApiUnchanged

NextApi ==
    \/ ApiMount
    \/ ApiRefetch
    \/ ApiDependencyChange
    \/ ApiUnmount
    \/ \E k \in 1..MaxRuns, v \in ApiResults : ApiResolve(k, v)
    \/ \E k \in 1..MaxRuns, e \in ApiRejections : ApiReject(k, e)

SpecApi == InitApi /\ [][NextApi]_vars

\* C18 (as claimed): the result or error of a run of fetchData is written to
\* data or error only while no newer run has started: what data and error hold
\* was written by the run that was the newest at the time.
C18_NoStaleResultIsWritten ==
    /\ api.dataRun # 0 => api.dataRun = api.dataNewest
    /\ api.errorRun # 0 => api.errorRun = api.errorNewest

----------------------------------------------------------------------------
(* useDebouncedSearch(searchFn, delay): a component that uses the hook, with the
   default delay. The hook holds the query and the debounced query, a timer set
   by the effect on [query, delay], and a useApi whose apiCall calls searchFn
   with the debounced query when that is not empty. *)

DebounceDelay == 300

MaxSearchClock == 900

Queries == {"", "a", "ab"}

SearchResults == {"[hits]"}
SearchRejections == {e \in ApiRejections : e.name = "Error"}

\* nothing has been passed to searchFn
NotCalled == "none"

\* the state after the first render: useState(''), useState('')
InitialSearch ==
    [query |-> "", debouncedQuery |-> "",
     timer |-> NoTimer,         \* when the pending timer is due
     timerQuery |-> "",         \* the query its callback will set
     \* observations
     setAt |-> 0,               \* when query got its value
     replaced |-> NotCalled,    \* the last query replaced while its timer was
                                \* pending
     heldFor |-> 0,             \* how long the debounced query had been the
                                \* query when the timer set it
     calledWith |-> NotCalled,  \* the argument of the last call of searchFn
     calledHeld |-> 0,          \* heldFor of that argument
     searches |-> 0]            \* calls of searchFn

InitSearch ==
    /\ cache = EmptyMap
    /\ ttl = ClientCacheTtl
    /\ now = 0
    /\ call = IdleCall
    /\ made = 0
    /\ last = NoOp
    /\ written = [k \in CacheKeys |-> NoWrite]
    /\ cleared = [k \in CacheKeys |-> "no"]
    /\ calls = <<>>
    /\ keyed = <<>>
    /\ api = InitialApi
    /\ search = InitialSearch
    /\ sync = <<>>
    /\ limiter = <<>>
    /\ secure = <<>>
    /\ monitor = <<>>
    /\ sanitized = <<>>
    /\ app = <<>>

SearchUnchanged ==
    UNCHANGED <<cache, ttl, ghostVars, clientVars, calls, keyed, sync, moreVars>>

\* (mutation of SetTimer: the callback is due at once)
SetTimer_NoDelay(s, t) == [s EXCEPT !.timer = t, !.timerQuery = s.query]

\* the effect on [query, delay]: setTimeout(() => setDebouncedQuery(query), delay)
SetTimer(s, t) == [s EXCEPT !.timer = t + DebounceDelay, !.timerQuery = s.query]

\* the apiCall of the hook, called by fetchData: searchFn(debouncedQuery) when the
\* debounced query is not empty
CallSearchFn(s) ==
    IF s.debouncedQuery # ""
    THEN [s EXCEPT !.calledWith = s.debouncedQuery, !.calledHeld = s.heldFor,
                   !.searches = @ + 1]
    ELSE s

\* a run of fetchData of the hook's useApi; Promise.resolve(null) has resolved
\* when fetchData awaits it, so that run ends before anything else happens
SearchFetchData(a, s) ==
    IF s.debouncedQuery # "" THEN fetchData(a)
    ELSE OnResolve(fetchData(a), a.runs + 1, "null")

\* the effects run after the first render
SearchMount ==
    /\ api.phase = "rendered"
    /\ search' = CallSearchFn(SetTimer([search EXCEPT !.setAt = now], now))
    /\ api' = SearchFetchData([api EXCEPT !.phase = "mounted"], search)
    /\ UNCHANGED now
    /\ SearchUnchanged

\* setQuery(q) with a new value: the render that follows clears the timer of the
\* old query and sets one for the new
SetQuery(q) ==
    /\ api.phase = "mounted"
    /\ q # search.query
    /\ search' = SetTimer([search EXCEPT !.query = q, !.setAt = now,
                                         !.replaced = IF search.timer # NoTimer
                                                      THEN search.query ELSE @],
                           now)
    /\ UNCHANGED <<now, api>>
    /\ SearchUnchanged

\* the timer fires: setDebouncedQuery(query); when that changes the debounced
\* query, the dependency of useApi has changed and fetchData runs
DebounceFire ==
    /\ api.phase = "mounted"
    /\ search.timer # NoTimer /\ now >= search.timer
    /\ LET s == [search EXCEPT !.timer = NoTimer,
                               !.debouncedQuery = search.timerQuery,
                               !.heldFor = now - search.setAt]
       IN IF search.timerQuery = search.debouncedQuery
          THEN search' = [search EXCEPT !.timer = NoTimer] /\ api' = api
          ELSE /\ api.runs < MaxRuns
               /\ search' = CallSearchFn(s)
               /\ api' = SearchFetchData([api EXCEPT !.aborted = TRUE], s)
    /\ UNCHANGED now
    /\ SearchUnchanged

\* the component calls the refetch the hook returns
SearchRefetch ==
    /\ api.phase = "mounted"
    /\ api.runs < MaxRuns
    /\ search' = CallSearchFn(search)
    /\ api' = SearchFetchData(api, search)
    /\ UNCHANGED now
    /\ SearchUnchanged

\* the promise of searchFn of run k resolves
SearchResolve(k, result) ==
    /\ k \in api.pending
    /\ api' = OnResolve(api, k, result)
    /\ UNCHANGED <<now, search>>
    /\ SearchUnchanged

\* the promise of searchFn of run k rejects
SearchReject(k, err) ==
    /\ k \in api.pending
    /\ api' = OnReject(api, k, err)
    /\ UNCHANGED <<now, search>>
    /\ SearchUnchanged

\* the component unmounts: the cleanups clear the timer and abort the controller
SearchUnmount ==
    /\ api.phase = "mounted"
    /\ search' = [search EXCEPT !.timer = NoTimer]
    /\ api' = [api EXCEPT !.phase = "unmounted", !.aborted = TRUE]
    /\ UNCHANGED now
    /\ SearchUnchanged

\* time passes, by half the delay or up to the moment the timer is due
SearchTick ==
    /\ search.timer = NoTimer \/ search.timer > now
    /\ LET step == now + (DebounceDelay \div 2)
           target == IF search.timer # NoTimer /\ search.timer < step
                     THEN search.timer ELSE step
       IN target <= MaxSearchClock /\ now' = target
    /\ UNCHANGED <<api, search>>
    /\ SearchUnchanged

NextSearch ==
    \/ SearchMount
    \/ \E q \in Queries : SetQuery(q)
    \/ DebounceFire
    \/ SearchRefetch
    \/ \E k \in 1..MaxRuns, v \in SearchResults : SearchResolve(k, v)
    \/ \E k \in 1..MaxRuns, e \in SearchRejections : SearchReject(k, e)
    \/ SearchUnmount
    \/ SearchTick

SpecSearch == InitSearch /\ [][NextSearch]_vars

\* C19: searchFn is called only with a value that is not empty and that had been
\* the query for the full delay when the timer made it the debounced query; a pending timer
\* is always that of the present query, due one delay after the query was set,
\* so a query that was replaced has no timer left; and while the component is
\* mounted, at the latest one delay after the last setQuery the timer has fired
\* and the debounced query equals the query.
C19_DebouncedSearch ==
    /\ search.calledWith # NotCalled =>
          /\ search.calledWith # ""
          /\ search.calledHeld >= DebounceDelay
    /\ search.timer # NoTimer =>
          /\ search.timerQuery = search.query
          /\ search.timer = search.setAt + DebounceDelay
    /\ api.phase = "mounted" =>
          IF search.timer = NoTimer
          THEN search.debouncedQuery = search.query
          ELSE now <= search.setAt + DebounceDelay

\* the query "a" was replaced by "ab" before its delay had passed; searchFn has
\* been called once, with "ab", one delay after "ab" was set
C19_Witness ==
    /\ search.replaced = "a"
    /\ search.searches = 1 /\ search.calledWith = "ab"
    /\ search.calledHeld = DebounceDelay
    /\ search.debouncedQuery = search.query
    /\ now - search.setAt = DebounceDelay

----------------------------------------------------------------------------
(* BackgroundSync: requests made through it while the browser goes offline and
   online. A fetch can fail or succeed whatever the browser reports. *)

RequeueWindow == 3600000

MaxRequests == 2
MaxSyncClock == 3600000

\* the (url, options) a caller passes to request
SyncRequests == { <<"/a", "{}">>, <<"/b", "{method:POST}">> }

\* new Error('Currently offline. Request has been queued.')
OfflineMessage == "Currently offline. Request has been queued."

\* no call of request yet, and no fetch of a call settled yet
NoRequest ==
    [online |-> FALSE, url |-> "none", options |-> "none", at |-> -1,
     before |-> <<>>, after |-> <<>>, fetched |-> 0, thrown |-> "none"]
NoSettle ==
    [ok |-> TRUE, url |-> "none", options |-> "none", at |-> -1,
     before |-> <<>>, after |-> <<>>]

InitialSync(online) ==
    [isOnline |-> online,       \* navigator.onLine
     pendingRequests |-> <<>>,
     inflight |-> <<>>,         \* the calls of request that await their fetch
     processing |-> <<>>,       \* the runs of processPendingRequests: what each
                                \* has left to send, its head being in flight
     requests |-> 0,            \* calls of request made
     \* observations
     lastRequest |-> NoRequest, \* the last call of request, up to its await or throw
     lastSettle |-> NoSettle]   \* the last fetch of a call of request that settled

InitSync ==
    /\ cache = EmptyMap
    /\ ttl = ClientCacheTtl
    /\ now = 0
    /\ call = IdleCall
    /\ made = 0
    /\ last = NoOp
    /\ written = [k \in CacheKeys |-> NoWrite]
    /\ cleared = [k \in CacheKeys |-> "no"]
    /\ calls = <<>>
    /\ keyed = <<>>
    /\ api = <<>>
    /\ search = <<>>
    /\ \E online \in BOOLEAN : sync = InitialSync(online)
    /\ limiter = <<>>
    /\ secure = <<>>
    /\ monitor = <<>>
    /\ sanitized = <<>>
    /\ app = <<>>

SyncUnchanged ==
    UNCHANGED <<cache, ttl, ghostVars, clientVars, calls, keyed, api, search,
                moreVars>>

\* (mutation of queueRequest: the entry is put in front)
queueRequest_InFront(pending, url, options, t) ==
    <<[url |-> url, options |-> options, timestamp |-> t]>> \o pending

\* this.pendingRequests.push({ url, options, timestamp: Date.now() })
queueRequest(pending, url, options, t) ==
    Append(pending, [url |-> url, options |-> options, timestamp |-> t])

\* the sequence q without its i-th element
RemoveAt(q, i) == SubSeq(q, 1, i - 1) \o SubSeq(q, i + 1, Len(q))

\* request(url, options), up to its await of fetch when online, to its throw when
\* offline
SyncRequest(url, options) ==
    /\ sync.requests < MaxRequests
    /\ LET seen == [online |-> sync.isOnline, url |-> url, options |-> options,
                    at |-> now, before |-> sync.pendingRequests,
                    after |-> <<>>, fetched |-> 0, thrown |-> "none"]
       IN sync' =
            IF sync.isOnline
            THEN [sync EXCEPT
                    !.requests = @ + 1,
                    !.inflight = Append(@, [url |-> url, options |-> options]),
                    !.lastRequest = [seen EXCEPT !.after = sync.pendingRequests,
                                                 !.fetched = 1]]
            ELSE LET queued == queueRequest(sync.pendingRequests, url, options, now)
                 IN [sync EXCEPT
                       !.requests = @ + 1,
                       !.pendingRequests = queued,
                       !.lastRequest = [seen EXCEPT !.after = queued,
                                                    !.thrown = OfflineMessage]]
    /\ UNCHANGED now
    /\ SyncUnchanged

\* the fetch of the i-th awaiting call resolves: request returns the response
SyncFetchResolve(i) ==
    /\ i \in 1..Len(sync.inflight)
    /\ sync' = [sync EXCEPT
                  !.inflight = RemoveAt(@, i),
                  !.lastSettle = [ok |-> TRUE, url |-> sync.inflight[i].url,
                                  options |-> sync.inflight[i].options, at |-> now,
                                  before |-> sync.pendingRequests,
                                  after |-> sync.pendingRequests]]
    /\ UNCHANGED now
    /\ SyncUnchanged

\* the fetch of the i-th awaiting call rejects: the request is queued and the
\* error thrown
SyncFetchReject(i) ==
    /\ i \in 1..Len(sync.inflight)
    /\ LET queued == queueRequest(sync.pendingRequests, sync.inflight[i].url,
                                  sync.inflight[i].options, now)
       IN sync' = [sync EXCEPT
                     !.inflight = RemoveAt(@, i),
                     !.pendingRequests = queued,
                     !.lastSettle = [ok |-> FALSE, url |-> sync.inflight[i].url,
                                     options |-> sync.inflight[i].options,
                                     at |-> now, before |-> sync.pendingRequests,
                                     after |-> queued]]
    /\ UNCHANGED now
    /\ SyncUnchanged

\* the 'online' event: isOnline is set and processPendingRequests starts; it
\* takes the queue, leaves an empty one, and awaits the fetch of the first entry
GoOnline ==
    /\ ~sync.isOnline
    /\ sync' = IF sync.pendingRequests = <<>>
               THEN [sync EXCEPT !.isOnline = TRUE]
               ELSE [sync EXCEPT !.isOnline = TRUE,
                                 !.processing = Append(@, sync.pendingRequests),
                                 !.pendingRequests = <<>>]
    /\ UNCHANGED now
    /\ SyncUnchanged

\* the 'offline' event
GoOffline ==
    /\ sync.isOnline
    /\ sync' = [sync EXCEPT !.isOnline = FALSE]
    /\ UNCHANGED now
    /\ SyncUnchanged

\* what is left of the runs of processPendingRequests when run j is done with the
\* entry at its head
Advance(runs, j) ==
    IF Len(runs[j]) = 1 THEN RemoveAt(runs, j)
    ELSE [runs EXCEPT ![j] = Tail(@)]

\* the fetch of the entry at the head of run j resolves
ProcessResolve(j) ==
    /\ j \in 1..Len(sync.processing)
    /\ sync' = [sync EXCEPT !.processing = Advance(@, j)]
    /\ UNCHANGED now
    /\ SyncUnchanged

\* the fetch of the entry at the head of run j rejects: the entry is queued again
\* when it is less than an hour old
ProcessReject(j) ==
    /\ j \in 1..Len(sync.processing)
    /\ LET request == Head(sync.processing[j])
       IN sync' = [sync EXCEPT
                     !.processing = Advance(@, j),
                     !.pendingRequests =
                         IF now - request.timestamp < RequeueWindow
                         THEN Append(@, request) ELSE @]
    /\ UNCHANGED now
    /\ SyncUnchanged

\* time passes, by half an hour
SyncTick ==
    /\ now + (RequeueWindow \div 2) <= MaxSyncClock
    /\ now' = now + (RequeueWindow \div 2)
    /\ UNCHANGED sync
    /\ SyncUnchanged

NextSync ==
    \/ \E rq \in SyncRequests : SyncRequest(rq[1], rq[2])
    \/ \E i \in 1..MaxRequests : SyncFetchResolve(i)
    \/ \E i \in 1..MaxRequests : SyncFetchReject(i)
    \/ GoOnline
    \/ GoOffline
    \/ \E j \in 1..MaxRequests : ProcessResolve(j)
    \/ \E j \in 1..MaxRequests : ProcessReject(j)
    \/ SyncTick

SpecSync == InitSync /\ [][NextSync]_vars

\* C20: a call of request made while offline has issued no fetch, has left the
\* queue as it was with one entry (url, options, time of the call) added at its
\* end, and has thrown the 'Currently offline' error; a call made while online
\* has issued one fetch and left the queue as it was; when the fetch of such a
\* call resolves the queue stays as it was, and when it rejects the request is
\* added at its end.
C20_RequestQueuesWhenItCannotSend ==
    /\ (sync.lastRequest # NoRequest /\ ~sync.lastRequest.online) =>
          /\ sync.lastRequest.fetched = 0
          /\ sync.lastRequest.thrown = OfflineMessage
          /\ Len(sync.lastRequest.after) = Len(sync.lastRequest.before) + 1
          /\ SubSeq(sync.lastRequest.after, 1, Len(sync.lastRequest.before))
                = sync.lastRequest.before
          /\ sync.lastRequest.after[Len(sync.lastRequest.after)]
                = [url |-> sync.lastRequest.url,
                   options |-> sync.lastRequest.options,
                   timestamp |-> sync.lastRequest.at]
    /\ (sync.lastRequest # NoRequest /\ sync.lastRequest.online) =>
          /\ sync.lastRequest.fetched = 1
          /\ sync.lastRequest.thrown = "none"
          /\ sync.lastRequest.after = sync.lastRequest.before
    /\ (sync.lastSettle # NoSettle /\ sync.lastSettle.ok) =>
          sync.lastSettle.after = sync.lastSettle.before
    /\ (sync.lastSettle # NoSettle /\ ~sync.lastSettle.ok) =>
          /\ Len(sync.lastSettle.after) = Len(sync.lastSettle.before) + 1
          /\ SubSeq(sync.lastSettle.after, 1, Len(sync.lastSettle.before))
                = sync.lastSettle.before
          /\ sync.lastSettle.after[Len(sync.lastSettle.after)].url
                = sync.lastSettle.url
          /\ sync.lastSettle.after[Len(sync.lastSettle.after)].options
                = sync.lastSettle.options

\* a call made while offline added its request behind another one that a failed
\* fetch had queued
C20_Witness ==
    /\ sync.lastRequest # NoRequest /\ ~sync.lastRequest.online
    /\ Len(sync.lastRequest.before) = 1
    /\ sync.lastRequest.before[1].url # sync.lastRequest.url
    /\ ~sync.lastSettle.ok
    /\ sync.lastSettle.after = sync.lastRequest.before
    /\ sync.pendingRequests = sync.lastRequest.after

----------------------------------------------------------------------------
(* Sending of the queue. Every fetch settles: the fetch of a call of request and
   the fetch of a run of processPendingRequests resolve or reject in the end.
   The browser goes offline and online as it happens to. *)

SyncFetchSettles == \E i \in 1..MaxRequests : SyncFetchResolve(i) \/ SyncFetchReject(i)
ProcessFetchSettles == \E j \in 1..MaxRequests : ProcessResolve(j) \/ ProcessReject(j)

SpecSyncFair ==
    /\ InitSync /\ [][NextSync]_vars
    /\ WF_vars(SyncFetchSettles)
    /\ WF_vars(ProcessFetchSettles)

\* C21 (as claimed): no request stays in pendingRequests for ever while the
\* application remains online: whenever the application is online with a request
\* in the queue, later the queue is empty, its requests having been taken to be
\* sent, or the application has gone offline.
C21_QueueIsSentWhileOnline ==
    (sync.isOnline /\ sync.pendingRequests # <<>>)
        ~> (~sync.isOnline \/ sync.pendingRequests = <<>>)

----------------------------------------------------------------------------
(* RateLimiter(maxRequests, timeWindowMs), with small limits and windows *)

MaxAllowed == 2
MaxWindow == 2
MaxLimiterClock == 5

\* the timestamps of ts that are inside the window at time t:
\* filter(timestamp => now - timestamp < this.timeWindowMs)
InWindow(ts, t, window) == SelectSeq(ts, LAMBDA x : t - x < window)

\* (mutation of BelowLimit: one request more is let through)
BelowLimit_OneMore(ts, max) == Len(ts) <= max

\* this.requestTimestamps.length < this.maxRequests
BelowLimit(ts, max) == Len(ts) < max

\* what canMakeRequest returns at time t
canMakeRequest_return(l, t) ==
    BelowLimit(InWindow(l.requestTimestamps, t, l.timeWindowMs), l.maxRequests)

\* requestTimestamps after canMakeRequest at time t
canMakeRequest_timestamps(l, t) ==
    IF canMakeRequest_return(l, t)
    THEN Append(InWindow(l.requestTimestamps, t, l.timeWindowMs), t)
    ELSE InWindow(l.requestTimestamps, t, l.timeWindowMs)

\* what getTimeUntilNextRequest returns at time t
getTimeUntilNextRequest(l, t) ==
    IF BelowLimit(l.requestTimestamps, l.maxRequests) THEN 0
    ELSE l.timeWindowMs - (t - l.requestTimestamps[1])

NoLimiterOp == [op |-> "none", at |-> -1, ret |-> 0, can |-> FALSE, before |-> <<>>]

NewLimiter(max, window) ==
    [maxRequests |-> max, timeWindowMs |-> window, requestTimestamps |-> <<>>,
     \* observations
     granted |-> <<>>,          \* the times at which canMakeRequest returned true
     lastOp |-> NoLimiterOp]    \* the last method called and what it returned

InitLimiter ==
    /\ cache = EmptyMap
    /\ ttl = ClientCacheTtl
    /\ now = 0
    /\ call = IdleCall
    /\ made = 0
    /\ last = NoOp
    /\ written = [k \in CacheKeys |-> NoWrite]
    /\ cleared = [k \in CacheKeys |-> "no"]
    /\ calls = <<>>
    /\ keyed = <<>>
    /\ api = <<>>
    /\ search = <<>>
    /\ sync = <<>>
    /\ \E max \in 1..MaxAllowed, window \in 1..MaxWindow :
          limiter = NewLimiter(max, window)
    /\ secure = <<>>
    /\ monitor = <<>>
    /\ sanitized = <<>>
    /\ app = <<>>

LimiterUnchanged ==
    UNCHANGED <<cache, ttl, ghostVars, clientVars, calls, keyed, api, search, sync,
                secure, monitor, sanitized, app>>

CanMakeRequest ==
    /\ limiter' =
         [limiter EXCEPT
            !.requestTimestamps = canMakeRequest_timestamps(limiter, now),
            !.granted = IF canMakeRequest_return(limiter, now)
                        THEN Append(@, now) ELSE @,
            !.lastOp = [op |-> "canMakeRequest", at |-> now,
                        ret |-> IF canMakeRequest_return(limiter, now) THEN 1 ELSE 0,
                        can |-> canMakeRequest_return(limiter, now),
                        before |-> limiter.requestTimestamps]]
    /\ UNCHANGED now
    /\ LimiterUnchanged

\* getTimeUntilNextRequest changes nothing; what it returned is kept, with what
\* canMakeRequest would have returned at that moment
GetTimeUntilNextRequest ==
    /\ limiter' =
         [limiter EXCEPT
            !.lastOp = [op |-> "getTimeUntilNextRequest", at |-> now,
                        ret |-> getTimeUntilNextRequest(limiter, now),
                        can |-> canMakeRequest_return(limiter, now),
                        before |-> limiter.requestTimestamps]]
    /\ UNCHANGED now
    /\ LimiterUnchanged

LimiterTick ==
    /\ now < MaxLimiterClock
    /\ now' = now + 1
    /\ UNCHANGED limiter
    /\ LimiterUnchanged

NextLimiter == CanMakeRequest \/ GetTimeUntilNextRequest \/ LimiterTick

SpecLimiter == InitLimiter /\ [][NextLimiter]_vars

\* the calls that returned true in the window of length timeWindowMs that ends
\* with, and includes, the i-th of them
GrantedInWindowOf(i) ==
    {j \in 1..Len(limiter.granted) :
        /\ limiter.granted[j] <= limiter.granted[i]
        /\ limiter.granted[i] - limiter.granted[j] < limiter.timeWindowMs}

\* C22: in every window of length timeWindowMs (the window that ends with a call
\* that returned true and reaches back less than timeWindowMs) canMakeRequest has
\* returned true at most maxRequests times; a call that returns false adds no
\* timestamp: it leaves what was inside the window, and nothing else.
C22_AtMostMaxPerWindow ==
    /\ \A i \in 1..Len(limiter.granted) :
          Cardinality(GrantedInWindowOf(i)) <= limiter.maxRequests
    /\ (limiter.lastOp.op = "canMakeRequest" /\ ~limiter.lastOp.can) =>
          limiter.requestTimestamps
             = InWindow(limiter.lastOp.before, limiter.lastOp.at,
                        limiter.timeWindowMs)

\* a limiter of two requests per window has refused a call and later, the
\* window having moved on, has let a third call through
C22_Witness ==
    /\ limiter.maxRequests = 2 /\ Len(limiter.granted) = 3
    /\ limiter.granted[2] - limiter.granted[1] < limiter.timeWindowMs
    /\ limiter.granted[3] - limiter.granted[1] >= limiter.timeWindowMs
    /\ limiter.lastOp.op = "canMakeRequest" /\ ~limiter.lastOp.can
    /\ Len(limiter.requestTimestamps) = 2

\* C23 (as claimed): getTimeUntilNextRequest returns a wait w >= 0; w is 0 exactly
\* when canMakeRequest would return true at that moment; and when w > 0,
\* canMakeRequest returns true once w ms have passed.
C23_WaitIsTimeUntilAllowed ==
    limiter.lastOp.op = "getTimeUntilNextRequest" =>
        /\ limiter.lastOp.ret >= 0
        /\ limiter.lastOp.ret = 0 <=> limiter.lastOp.can
        /\ limiter.lastOp.ret > 0 =>
              canMakeRequest_return(
                  [limiter EXCEPT !.requestTimestamps = limiter.lastOp.before],
                  limiter.lastOp.at + limiter.lastOp.ret)

----------------------------------------------------------------------------
(* SecureApiClient: its rate limiter lets 60 requests through per minute. The
   caller awaits each call of secureRequest before it makes the next. *)

SecureMaxRequests == 60
SecureWindowMs == 60000

MaxSecureClock == 60000

\* URLs as new URL(url) reads them: whether the text parses, the protocol, and
\* the labels of the hostname
SecureUrls ==
    { [parses |-> FALSE, protocol |-> "none", hostname |-> <<>>],
      [parses |-> TRUE, protocol |-> "http:", hostname |-> <<"pokeapi", "co">>],
      [parses |-> TRUE, protocol |-> "https:", hostname |-> <<"beta", "pokeapi", "co">>],
      [parses |-> TRUE, protocol |-> "https:",
       hostname |-> <<"pokeapi", "co", "evil", "com">>] }

AllowedDomains ==
    { <<"pokeapi", "co">>, <<"dog", "ceo">>, <<"catfact", "ninja">>,
      <<"api", "github", "com">> }

\* urlObj.hostname === domain || urlObj.hostname.endsWith(`.${domain}`)
MatchesDomain(hostname, domain) ==
    /\ Len(domain) <= Len(hostname)
    /\ SubSeq(hostname, Len(hostname) - Len(domain) + 1, Len(hostname)) = domain

isValidApiUrl(url) ==
    IF ~url.parses THEN FALSE
    ELSE IF url.protocol # "https:" THEN FALSE
    ELSE \E domain \in AllowedDomains : MatchesDomain(url.hostname, domain)

\* Math.ceil(ms / 1000), for ms >= 0
CeilSeconds(ms) == (ms + 999) \div 1000

\* (mutation of SecureOutcome: the URL is not checked)
SecureOutcome_AnyUrl(allowed, valid) == IF ~allowed THEN "rate limited" ELSE "fetch"

\* what secureRequest does before it awaits anything: it throws the 'Rate
\* limited' error, throws the 'Invalid or unauthorized API URL' error, or fetches
SecureOutcome(allowed, valid) ==
    IF ~allowed THEN "rate limited"
    ELSE IF ~valid THEN "invalid url"
    ELSE "fetch"

NoSecureCall ==
    [url |-> "none", allowed |-> FALSE, thrown |-> "none", seconds |-> 0,
     status |-> 0, fetches |-> 0]

InitialSecure ==
    [rateLimiter |-> NewLimiter(SecureMaxRequests, SecureWindowMs),
     pc |-> "idle",             \* "idle", "fetching", "decoding"
     \* observations
     lastCall |-> NoSecureCall] \* the last call: its url, what the limiter
                                \* answered, what it threw, the fetches it issued

InitSecure ==
    /\ cache = EmptyMap
    /\ ttl = ClientCacheTtl
    /\ now = 0
    /\ call = IdleCall
    /\ made = 0
    /\ last = NoOp
    /\ written = [k \in CacheKeys |-> NoWrite]
    /\ cleared = [k \in CacheKeys |-> "no"]
    /\ calls = <<>>
    /\ keyed = <<>>
    /\ api = <<>>
    /\ search = <<>>
    /\ sync = <<>>
    /\ limiter = <<>>
    /\ secure = InitialSecure
    /\ monitor = <<>>
    /\ sanitized = <<>>
    /\ app = <<>>

SecureUnchanged ==
    UNCHANGED <<cache, ttl, ghostVars, clientVars, calls, keyed, api, search, sync,
                limiter, monitor, sanitized, app>>

\* secureRequest(url) up to its await of fetch, or to its throw
SecureRequest(url) ==
    /\ secure.pc = "idle"
    /\ LET allowed == canMakeRequest_return(secure.rateLimiter, now)
           lim == [secure.rateLimiter EXCEPT
                      !.requestTimestamps =
                          canMakeRequest_timestamps(secure.rateLimiter, now)]
           outcome == SecureOutcome(allowed, isValidApiUrl(url))
           seen == [NoSecureCall EXCEPT !.url = url, !.allowed = allowed]
       IN secure' =
            [secure EXCEPT
               !.rateLimiter = lim,
               !.pc = IF outcome = "fetch" THEN "fetching" ELSE "idle",
               !.lastCall =
                   IF outcome = "fetch" THEN [seen EXCEPT !.fetches = 1]
                   ELSE IF outcome = "rate limited"
                   THEN [seen EXCEPT
                           !.thrown = outcome,
                           !.seconds = CeilSeconds(getTimeUntilNextRequest(lim, now))]
                   ELSE [seen EXCEPT !.thrown = outcome]]
    /\ UNCHANGED now
    /\ SecureUnchanged

\* fetch resolves: a response that is not ok is thrown as an error
SecureFetchResolve(status) ==
    /\ secure.pc = "fetching"
    /\ secure' = IF ResponseOk(status)
                 THEN [secure EXCEPT !.pc = "decoding", !.lastCall.status = status]
                 ELSE [secure EXCEPT !.pc = "idle", !.lastCall.status = status,
                                     !.lastCall.thrown = "request failed"]
    /\ UNCHANGED now
    /\ SecureUnchanged

\* fetch rejects: secureRequest rejects with the same error
SecureFetchReject ==
    /\ secure.pc = "fetching"
    /\ secure' = [secure EXCEPT !.pc = "idle", !.lastCall.thrown = "fetch error"]
    /\ UNCHANGED now
    /\ SecureUnchanged

\* response.json() settles: the data is returned, or its error thrown
SecureDecode(ok) ==
    /\ secure.pc = "decoding"
    /\ secure' = [secure EXCEPT !.pc = "idle",
                    !.lastCall.thrown = IF ok THEN "none" ELSE "decode error"]
    /\ UNCHANGED now
    /\ SecureUnchanged

\* a minute passes
SecureTick ==
    /\ now + SecureWindowMs <= MaxSecureClock
    /\ now' = now + SecureWindowMs
    /\ UNCHANGED secure
    /\ SecureUnchanged

NextSecure ==
    \/ \E url \in SecureUrls : SecureRequest(url)
    \/ \E status \in {200, 500} : SecureFetchResolve(status)
    \/ SecureFetchReject
    \/ \E ok \in BOOLEAN : SecureDecode(ok)
    \/ SecureTick

SpecSecure == InitSecure /\ [][NextSecure]_vars

\* C24: a call of secureRequest has issued a fetch only if the rate limiter let
\* it through and its URL is https on an allowed domain; a call the limiter
\* refused has thrown the 'Rate limited' error and a call with another URL the
\* 'Invalid or unauthorized API URL' error, each without a fetch.
C24_FetchOnlyWhenAllowedAndValid ==
    secure.lastCall # NoSecureCall =>
        /\ secure.lastCall.fetches = 1 =>
              /\ secure.lastCall.allowed
              /\ secure.lastCall.url.parses
              /\ secure.lastCall.url.protocol = "https:"
              /\ secure.lastCall.url.hostname = <<"beta", "pokeapi", "co">>
        /\ ~secure.lastCall.allowed =>
              /\ secure.lastCall.thrown = "rate limited"
              /\ secure.lastCall.fetches = 0
        /\ (secure.lastCall.allowed /\ ~isValidApiUrl(secure.lastCall.url)) =>
              /\ secure.lastCall.thrown = "invalid url"
              /\ secure.lastCall.fetches = 0

\* the 61st call within a minute, with a valid URL, was refused by the limiter
C24_Witness ==
    /\ secure.lastCall # NoSecureCall /\ ~secure.lastCall.allowed
    /\ isValidApiUrl(secure.lastCall.url)
    /\ Len(secure.rateLimiter.requestTimestamps) = SecureMaxRequests
    /\ secure.lastCall.thrown = "rate limited" /\ secure.lastCall.seconds = 60

----------------------------------------------------------------------------
(* ApiPerformanceMonitor: monitoredFetch wraps fetch and records one metric per
   call. Calls overlap: each is a start, then the settling of its fetch. *)

MetricsCap == 100
SlowMs == 2000

MaxMonitorCalls == 102
MaxInFlight == 2
\* how often the environment departs from a prompt 200: a response with another
\* status, a failed fetch, or a fetch that takes more than SlowMs
MaxOdd == 1

MonitorUrl == "https://pokeapi.co/api/v2/pokemon/1"

\* (mutation of recordMetric: over the cap, the newest metric is dropped)
recordMetric_DropNewest(metrics, m) ==
    LET pushed == Append(metrics, m)
    IN IF Len(pushed) > MetricsCap THEN SubSeq(pushed, 1, Len(pushed) - 1) ELSE pushed

\* this.metrics.push(m); if (this.metrics.length > 100) this.metrics.shift()
recordMetric(metrics, m) ==
    LET pushed == Append(metrics, m)
    IN IF Len(pushed) > MetricsCap THEN Tail(pushed) ELSE pushed

NoMonitorCall ==
    [status |-> -1, returned |-> FALSE, rethrown |-> FALSE, recordedBy |-> 0,
     warned |-> FALSE]

InitialMonitor ==
    [metrics |-> <<>>,
     pending |-> <<>>,          \* startTime of each call awaiting its fetch
     \* observations
     started |-> 0,             \* calls of monitoredFetch so far
     recorded |-> 0,            \* calls of recordMetric so far
     odd |-> 0,
     lastDone |-> NoMonitorCall] \* the call that ended last: the status it got,
                                 \* how it ended, the metrics it recorded

InitMonitor ==
    /\ cache = EmptyMap
    /\ ttl = ClientCacheTtl
    /\ now = 0
    /\ call = IdleCall
    /\ made = 0
    /\ last = NoOp
    /\ written = [k \in CacheKeys |-> NoWrite]
    /\ cleared = [k \in CacheKeys |-> "no"]
    /\ calls = <<>>
    /\ keyed = <<>>
    /\ api = <<>>
    /\ search = <<>>
    /\ sync = <<>>
    /\ limiter = <<>>
    /\ secure = <<>>
    /\ monitor = InitialMonitor
    /\ sanitized = <<>>
    /\ app = <<>>

MonitorUnchanged ==
    UNCHANGED <<cache, ttl, ghostVars, clientVars, calls, keyed, api, search, sync,
                limiter, secure, sanitized, app>>

\* monitoredFetch(url) up to its await of fetch
MonitoredFetch ==
    /\ monitor.started < MaxMonitorCalls
    /\ Len(monitor.pending) < MaxInFlight
    /\ monitor' = [monitor EXCEPT !.pending = Append(@, now), !.started = @ + 1]
    /\ UNCHANGED now
    /\ MonitorUnchanged

\* the metric a call records when its fetch has settled
Metric(startTime, status, t) ==
    [url |-> MonitorUrl, duration |-> t - startTime, status |-> status,
     timestamp |-> t, n |-> monitor.recorded + 1]

\* fetch resolves: the metric has the response's status, slow requests are
\* warned about, the response is returned
MonitorResolve(i, status) ==
    /\ i \in 1..Len(monitor.pending)
    /\ status # 200 => monitor.odd < MaxOdd
    /\ LET m == Metric(monitor.pending[i], status, now)
       IN monitor' =
            [monitor EXCEPT
               !.metrics = recordMetric(@, m),
               !.pending = RemoveAt(@, i),
               !.recorded = @ + 1,
               !.odd = IF status # 200 THEN @ + 1 ELSE @,
               !.lastDone = [status |-> status, returned |-> TRUE,
                             rethrown |-> FALSE, recordedBy |-> 1,
                             warned |-> m.duration > SlowMs]]
    /\ UNCHANGED now
    /\ MonitorUnchanged

\* fetch rejects: the metric has status 0 and the error is thrown again
MonitorReject(i) ==
    /\ i \in 1..Len(monitor.pending)
    /\ monitor.odd < MaxOdd
    /\ LET m == Metric(monitor.pending[i], 0, now)
       IN monitor' =
            [monitor EXCEPT
               !.metrics = recordMetric(@, m),
               !.pending = RemoveAt(@, i),
               !.recorded = @ + 1,
               !.odd = @ + 1,
               !.lastDone = [status |-> 0, returned |-> FALSE, rethrown |-> TRUE,
                             recordedBy |-> 1, warned |-> FALSE]]
    /\ UNCHANGED now
    /\ MonitorUnchanged

\* the only fetch in flight resolves after more than SlowMs
MonitorSlowResolve ==
    /\ Len(monitor.pending) = 1
    /\ monitor.odd < MaxOdd
    /\ now' = now + SlowMs + 1
    /\ LET m == Metric(monitor.pending[1], 200, now')
       IN monitor' =
            [monitor EXCEPT
               !.metrics = recordMetric(@, m),
               !.pending = <<>>,
               !.recorded = @ + 1,
               !.odd = @ + 1,
               !.lastDone = [status |-> 200, returned |-> TRUE,
                             rethrown |-> FALSE, recordedBy |-> 1,
                             warned |-> m.duration > SlowMs]]
    /\ MonitorUnchanged

NextMonitor ==
    \/ MonitoredFetch
    \/ \E i \in 1..MaxInFlight, status \in {200, 404} : MonitorResolve(i, status)
    \/ \E i \in 1..MaxInFlight : MonitorReject(i)
    \/ MonitorSlowResolve

SpecMonitor == InitMonitor /\ [][NextMonitor]_vars

\* C25: the monitor holds the last 100 metrics recorded, or all of them while
\* there are fewer, in the order they were recorded; every call of monitoredFetch
\* whose fetch has settled recorded exactly one metric, with the response's
\* status when it returned the response and with status 0 when it threw the
\* fetch's error again.
C25_LastHundredMetrics ==
    /\ Len(monitor.metrics) = Min(monitor.recorded, MetricsCap)
    /\ \A i \in 1..Len(monitor.metrics) :
          monitor.metrics[i].n = monitor.recorded - Len(monitor.metrics) + i
    /\ monitor.started = monitor.recorded + Len(monitor.pending)
    /\ monitor.lastDone # NoMonitorCall =>
          /\ monitor.lastDone.recordedBy = 1
          /\ monitor.metrics[Len(monitor.metrics)].status = monitor.lastDone.status
          /\ monitor.lastDone.returned = (monitor.lastDone.status # 0)
          /\ monitor.lastDone.rethrown = (monitor.lastDone.status = 0)

\* more than 100 metrics were recorded, the last of them for a failed fetch
C25_Witness ==
    /\ monitor.recorded > MetricsCap
    /\ Len(monitor.metrics) = MetricsCap
    /\ monitor.metrics[1].n = monitor.recorded - MetricsCap + 1
    /\ monitor.lastDone.status = 0 /\ monitor.lastDone.rethrown

----------------------------------------------------------------------------
(* sanitizeInput. A string is the sequence of its characters. *)

MaxSanitizedLength == 100

MaxFragments == 3
LongRunLength == 40

LongRun == [i \in 1..LongRunLength |-> "a"]

\* the pieces the inputs are put together from
Fragments ==
    { <<"j", "a", "v", "a">>,
      <<"s", "c", "r", "i", "p", "t", ":">>,
      <<"j", "a", "v", "a", "s", "c", "r", "i", "p", "t", ":">>,
      <<"J", "a", "v", "a", "S", "c", "r", "i", "p", "t", ":">>,
      <<"<">>, <<"/">>, <<" ">>, LongRun }

RECURSIVE Concatenations(_)
Concatenations(n) ==
    IF n = 0 THEN {<<>>}
    ELSE Concatenations(n - 1) \cup
         {s \o f : s \in Concatenations(n - 1), f \in Fragments}

SanitizeInputs == Concatenations(MaxFragments)

\* String.prototype.trim
RECURSIVE TrimStart(_)
TrimStart(s) == IF s # <<>> /\ Head(s) = " " THEN TrimStart(Tail(s)) ELSE s

RECURSIVE TrimEnd(_)
TrimEnd(s) ==
    IF s # <<>> /\ s[Len(s)] = " " THEN TrimEnd(SubSeq(s, 1, Len(s) - 1)) ELSE s

Trim(s) == TrimEnd(TrimStart(s))

\* the characters of /[<>&"/]/
StrippedChars == {"<", ">", "&", "\"", "/"}

IsKept(c) == c \notin StrippedChars

\* .replace(/[<>&"/]/g, '')
StripChars(s) == SelectSeq(s, IsKept)

ProtocolPattern == <<"j", "a", "v", "a", "s", "c", "r", "i", "p", "t", ":">>

\* the lower-case form of a character, for the i flag
LowerCase(c) ==
    CASE c = "J" -> "j" [] c = "A" -> "a" [] c = "V" -> "v" [] c = "S" -> "s"
      [] c = "C" -> "c" [] c = "R" -> "r" [] c = "I" -> "i" [] c = "P" -> "p"
      [] c = "T" -> "t" [] OTHER -> c

\* /javascript:/i matches s at position i
MatchesAt(s, i) ==
    /\ i + Len(ProtocolPattern) - 1 <= Len(s)
    /\ \A k \in 1..Len(ProtocolPattern) : LowerCase(s[i + k - 1]) = ProtocolPattern[k]

\* .replace(/javascript:/gi, ''): one pass from the left, every match removed.
\* No two matches overlap (no end of the pattern is a start of it), so the
\* characters removed are those inside any match.
RemoveProtocol(s) ==
    LET inMatch(k) == \E i \in 1..k : k < i + Len(ProtocolPattern) /\ MatchesAt(s, i)
        kept == {k \in 1..Len(s) : ~inMatch(k)}
    IN [n \in 1..Cardinality(kept) |->
            s[CHOOSE k \in kept : Cardinality({j \in kept : j < k}) = n - 1]]

\* .substring(0, 100)
Truncate(s) == SubSeq(s, 1, Min(Len(s), MaxSanitizedLength))

sanitizeInput(input) == Truncate(RemoveProtocol(StripChars(Trim(input))))

ContainsProtocol(s) == \E i \in 1..Len(s) : MatchesAt(s, i)

InitSanitize ==
    /\ cache = EmptyMap
    /\ ttl = ClientCacheTtl
    /\ now = 0
    /\ call = IdleCall
    /\ made = 0
    /\ last = NoOp
    /\ written = [k \in CacheKeys |-> NoWrite]
    /\ cleared = [k \in CacheKeys |-> "no"]
    /\ calls = <<>>
    /\ keyed = <<>>
    /\ api = <<>>
    /\ search = <<>>
    /\ sync = <<>>
    /\ limiter = <<>>
    /\ secure = <<>>
    /\ monitor = <<>>
    /\ sanitized \in {[input |-> i, output |-> <<>>, done |-> FALSE] : i \in SanitizeInputs}
    /\ app = <<>>

Sanitize ==
    /\ ~sanitized.done
    /\ sanitized' = [sanitized EXCEPT !.output = sanitizeInput(sanitized.input),
                                      !.done = TRUE]
    /\ UNCHANGED <<cache, ttl, now, ghostVars, clientVars, calls, keyed, api, search,
                   sync, limiter, secure, monitor, app>>

NextSanitize == Sanitize

SpecSanitize == InitSanitize /\ [][NextSanitize]_vars

\* C26: the string sanitizeInput returns has at most 100 characters, none of
\* them one of < > & " /, and "javascript:" occurs nowhere in it, in any
\* letter case.
C26_SanitizedIsClean ==
    sanitized.done =>
        /\ Len(sanitized.output) <= MaxSanitizedLength
        /\ \A i \in 1..Len(sanitized.output) : sanitized.output[i] \notin StrippedChars
        /\ ~ContainsProtocol(sanitized.output)

----------------------------------------------------------------------------
(* App: the Pokedex screen and its buttons. A handler is modelled with the render
   that follows it and the effects that render runs. *)

MaxRandomId == 905
InitialPokemonId == 1

MaxPokemonId == 12

\* outcomes of Math.floor(Math.random() * 905) + 1
RandomChoices == {1, 11, MaxRandomId}

DPadSteps == {10, 0 - 1, 1, 0 - 10}

SearchTerms == {"", "Pikachu", "MissingNo"}

FetchFailedMessage == "Failed to fetch Pokemon. Please try again."

\* searchTerm.toLowerCase()
ToLowerCase(term) ==
    CASE term = "Pikachu" -> "pikachu" [] term = "MissingNo" -> "missingno" [] OTHER -> term

\* what getPokemon was asked for: a number, or a name
ById(id) == [id |-> id, name |-> ""]
ByName(name) == [id |-> 0, name |-> name]

\* the id of the Pokemon the API has under a name; 0 when it has none
IdOfName(name) == IF name = "pikachu" THEN 25 ELSE 0

NoPokemon == [id |-> 0, name |-> "null"]

NoAppEvent == [kind |-> "none", chosen |-> 0, calls |-> 0, shown |-> "nothing"]

InitialApp ==
    [mounted |-> FALSE,
     pokemon |-> NoPokemon,
     loadingState |-> "idle",
     error |-> "null",
     pokemonId |-> InitialPokemonId,
     searchTerm |-> "",
     pending |-> <<>>,          \* the getPokemon calls that have not settled
     \* observations
     lastEvent |-> NoAppEvent]  \* the last handler: a chosen random id, the calls
                                \* of getPokemon it led to, the screen before it

InitApp ==
    /\ cache = EmptyMap
    /\ ttl = ClientCacheTtl
    /\ now = 0
    /\ call = IdleCall
    /\ made = 0
    /\ last = NoOp
    /\ written = [k \in CacheKeys |-> NoWrite]
    /\ cleared = [k \in CacheKeys |-> "no"]
    /\ calls = <<>>
    /\ keyed = <<>>
    /\ api = <<>>
    /\ search = <<>>
    /\ sync = <<>>
    /\ limiter = <<>>
    /\ secure = <<>>
    /\ monitor = <<>>
    /\ sanitized = <<>>
    /\ app = InitialApp

AppUnchanged ==
    UNCHANGED <<cache, ttl, now, ghostVars, clientVars, calls, keyed, api, search,
                sync, limiter, secure, monitor, sanitized>>

\* what the screen shows
ShowsLoading(a) == a.loadingState = "loading"
ShowsError(a) == a.error # "null" /\ a.error # ""
ShowsCard(a) == a.pokemon # NoPokemon /\ a.loadingState = "success"
ShowsPrompt(a) == a.pokemon = NoPokemon /\ a.loadingState = "idle"

Shown(a) ==
    IF ShowsCard(a) THEN "card" ELSE IF ShowsError(a) THEN "error"
    ELSE IF ShowsPrompt(a) THEN "prompt" ELSE IF ShowsLoading(a) THEN "loading"
    ELSE "nothing"

\* the buttons and the search input are disabled while loading
Enabled(a) == a.mounted /\ a.loadingState # "loading"

\* (mutation of handleClearResults: the error is kept)
handleClearResults_KeepError(a) == [a EXCEPT !.pokemon = NoPokemon, !.loadingState = "idle"]

handleClearResults(a) ==
    [a EXCEPT !.pokemon = NoPokemon, !.error = "null", !.loadingState = "idle"]

\* handleFetchPokemon(id) up to its await of getPokemon
handleFetchPokemon(a, request) ==
    [a EXCEPT !.loadingState = "loading", !.error = "null",
              !.pending = Append(@, request)]

\* useEffect(() => { handleFetchPokemon(pokemonId) }, [pokemonId]): after a
\* render, the effect runs when pokemonId is not what it was at the last render
RunEffect(a, previousId) ==
    IF a.pokemonId # previousId THEN handleFetchPokemon(a, ById(a.pokemonId)) ELSE a

Event(kind, chosen, after) ==
    [kind |-> kind, chosen |-> chosen,
     calls |-> Len(after.pending) - Len(app.pending), shown |-> Shown(app)]

\* the first render: the effect runs
AppMount ==
    /\ ~app.mounted
    /\ LET a == handleFetchPokemon([app EXCEPT !.mounted = TRUE], ById(app.pokemonId))
       IN app' = [a EXCEPT !.lastEvent = Event("mount", 0, a)]
    /\ AppUnchanged

\* CLEAR
AppClear ==
    /\ Enabled(app)
    /\ LET a == RunEffect(handleClearResults(app), app.pokemonId)
       IN app' = [a EXCEPT !.lastEvent = Event("clear", 0, a)]
    /\ AppUnchanged

\* RANDOM: handleGetRandomPokemon
AppRandom(randomId) ==
    /\ Enabled(app)
    /\ LET a == RunEffect([app EXCEPT !.pokemonId = randomId], app.pokemonId)
       IN app' = [a EXCEPT !.lastEvent = Event("random", randomId, a)]
    /\ AppUnchanged

\* the four buttons of the d-pad
AppDPad(step) ==
    /\ Enabled(app)
    /\ step = 0 - 1 => app.pokemonId > 1
    /\ step = 0 - 10 => app.pokemonId > 10
    /\ app.pokemonId + step <= MaxPokemonId
    /\ LET a == RunEffect([app EXCEPT !.pokemonId = @ + step], app.pokemonId)
       IN app' = [a EXCEPT !.lastEvent = Event("d-pad", 0, a)]
    /\ AppUnchanged

\* typing into the search input
AppType(term) ==
    /\ Enabled(app)
    /\ term # app.searchTerm
    /\ app' = [app EXCEPT !.searchTerm = term,
                          !.lastEvent = Event("type", 0, app)]
    /\ AppUnchanged

\* handleSearch
AppSearch ==
    /\ Enabled(app)
    /\ LET a == IF app.searchTerm # ""
                THEN handleFetchPokemon(app, ByName(ToLowerCase(app.searchTerm)))
                ELSE app
       IN app' = [a EXCEPT !.lastEvent = Event("search", 0, a)]
    /\ AppUnchanged

\* getPokemon resolves with the Pokemon asked for
AppResolve(i) ==
    /\ i \in 1..Len(app.pending)
    /\ LET request == app.pending[i]
           id == IF request.name = "" THEN request.id ELSE IdOfName(request.name)
           settled == [app EXCEPT !.pending = RemoveAt(@, i)]
           a == RunEffect([settled EXCEPT !.pokemon = [id |-> id, name |-> "found"],
                                          !.pokemonId = id,
                                          !.loadingState = "success"],
                          app.pokemonId)
       IN /\ id # 0
          /\ app' = [a EXCEPT !.lastEvent = Event("resolve", 0, a)]
    /\ AppUnchanged

\* getPokemon rejects
AppReject(i) ==
    /\ i \in 1..Len(app.pending)
    /\ LET a == [app EXCEPT !.pending = RemoveAt(@, i),
                            !.error = FetchFailedMessage,
                            !.loadingState = "error"]
       IN app' = [a EXCEPT !.lastEvent = Event("reject", 0, a)]
    /\ AppUnchanged

NextApp ==
    \/ AppMount
    \/ AppClear
    \/ \E randomId \in RandomChoices : AppRandom(randomId)
    \/ \E step \in DPadSteps : AppDPad(step)
    \/ \E term \in SearchTerms : AppType(term)
    \/ AppSearch
    \/ \E i \in 1..2 : AppResolve(i)
    \/ \E i \in 1..2 : AppReject(i)

SpecApp == InitApp /\ [][NextApp]_vars

\* C27: after CLEAR, pokemon is null, error is null and loadingState is 'idle';
\* the screen shows the idle prompt, and neither the card nor the error message.
C27_ClearReturnsToIdle ==
    app.lastEvent.kind = "clear" =>
        /\ app.pokemon = NoPokemon
        /\ app.error = "null"
        /\ app.loadingState = "idle"
        /\ ShowsPrompt(app) /\ ~ShowsCard(app) /\ ~ShowsError(app) /\ ~ShowsLoading(app)

\* CLEAR was pressed while the card was shown
C27_Witness ==
    /\ app.lastEvent.kind = "clear" /\ app.lastEvent.shown = "card"
    /\ ShowsPrompt(app)

\* C28: after every press of RANDOM, pokemonId is the chosen id, getPokemon was
\* called exactly once, for the chosen id, and loadingState is 'loading'.
C28_RandomFetchesTheChosenId ==
    app.lastEvent.kind = "random" =>
        /\ app.pokemonId = app.lastEvent.chosen
        /\ app.lastEvent.calls = 1
        /\ app.pending = <<ById(app.lastEvent.chosen)>>
        /\ app.loadingState = "loading"

----------------------------------------------------------------------------
(* The number of fetches and the place of the backoff waits of a call of
   AdvancedApiClient.request, checked under SpecClient *)

\* C29: a call with retries = n >= 0 has issued at most n + 1 fetches, whatever
\* its attempts met, and a call that was served from the cache has issued none.
C29_AtMostRetriesPlusOneFetches ==
    /\ call.retries >= 0 => call.fetches <= call.retries + 1
    /\ call.hit => call.fetches = 0 /\ call.pc = "done"

\* a call succeeded with the last fetch it was allowed, after a failed attempt
C29_Witness ==
    /\ call.pc = "done" /\ ~call.hit
    /\ call.retries >= 1 /\ call.fetches = call.retries + 1
    /\ call.lastError # NoError

\* C30: every backoff wait of a call lies between two of its attempts: the call
\* waits only after a failure that is not a response of status 400 or 404 and
\* that leaves it an attempt, it has waited once before each attempt but the
\* first, and when it has failed no wait follows its last attempt.
C30_BackoffOnlyBetweenAttempts ==
    /\ call.pc = "backoff" =>
          /\ call.attempt < call.retries
          /\ call.lastError # NoError /\ ~IsClientStatus(call.lastError)
          /\ Len(call.waits) = call.attempt + 1
    /\ call.pc \in {"fetching", "decoding", "done", "failed"} =>
          Len(call.waits) = call.attempt
    /\ (call.pc = "failed" /\ call.fetches >= 1) =>
          /\ Len(call.waits) = call.fetches - 1
          /\ call.lastError.attempt = call.fetches - 1
          /\ IsTerminalMessage(call.lastError.message) \/ call.attempt = call.retries

\* a call failed on a retryable failure of its last allowed attempt, one wait
\* after its first attempt
C30_Witness ==
    /\ call.pc = "failed" /\ call.retries >= 1
    /\ call.lastError.attempt = call.retries
    /\ ~IsTerminalMessage(call.lastError.message)
    /\ Len(call.waits) = call.retries

----------------------------------------------------------------------------
(* Calls that bypass the cache. request takes retries as the caller gives it, so
   the calls here may also be made with a negative number of retries. *)

AnyRetryChoices == (0 - 1)..MaxRetries

NextBypass ==
    ClientStep(MaxCalls, CachingOptionChoices, AnyRetryChoices, CachingResponses,
               Bodies, CachingNetworkMessages, CachingDecodeMessages)

SpecBypass == InitClient /\ [][NextBypass]_vars

----------------------------------------------------------------------------
(* The effect of SimpleCache.get on the Map, checked under SpecCache *)

\* C32: a step of get(k) leaves the Map as it was, timestamps included, unless k
\* holds an entry older than ttl; then it removes that entry and nothing else.
\* The entry of another key is never changed.
C32_GetOnlyEvictsItsExpiredEntry ==
    [][\A k \in CacheKeys :
          Get(k) =>
            /\ \A j \in CacheKeys \ {k} : EntryOf(cache', j) = EntryOf(cache, j)
            /\ IF MapHas(cache, k) /\ now - cache[k].timestamp > ttl
               THEN ~MapHas(cache', k)
               ELSE cache' = cache]_vars

\* a get removed the expired entry of its key and left the entry of the other
\* key with the timestamp of its set
C32_Witness ==
    /\ last.op = "get" /\ last.had # NoEntry
    /\ last.at - last.had.timestamp > ttl
    /\ ~MapHas(cache, last.key)
    /\ \E j \in CacheKeys \ {last.key} :
          MapHas(cache, j) /\ cache[j].timestamp = written[j].timestamp

----------------------------------------------------------------------------
(* The loading flag and the error of useApi, checked under SpecApi *)

\* C33 (as claimed): while the component is mounted, loading is true whenever a
\* promise of apiCall started by the hook is still pending; it is false only
\* once the run started last has settled.
C33_LoadingWhilePending ==
    (api.phase = "mounted" /\ api.pending # {}) => api.loading

\* C34 (as claimed): when the hook has handled a rejection of apiCall, loading
\* is false, and error holds a message unless the rejection is named
\* 'AbortError': only those are ignored, their run writing no error.
C34_OnlyAbortErrorsAreIgnored ==
    (api.phase = "mounted" /\ api.rejected # NoRejection) =>
        /\ ~api.loading
        /\ IF api.rejected.name = "AbortError"
           THEN api.errorRun # api.rejected.run
           ELSE api.error # "null" /\ api.errorRun = api.rejected.run

====
